---- MODULE Spec2Model ----
(***************************************************************************)
(* A model of the text-structure engine of Code_Feeder_Skill:              *)
(*   - hollow_out_function_bodies (scripts/code_cleaner.py), the brace     *)
(*     and literal aware body skeletonizer, as a character scanner;        *)
(*   - the document model of scripts/code_collector.py: batch_import,      *)
(*     extract_snippets, generate_markdown, parse_existing_markdown and    *)
(*     merge_markdown_data, with the artifact text as a sequence of lines; *)
(*   - the entity locator (_extract_by_name with its two end-finding       *)
(*     strategies and the skeleton post-pass) and extract_snippets, called *)
(*     on source files written from a small set of lines;                  *)
(*   - one call of batch_import, iteration by iteration, on a list of      *)
(*     files some of which cannot be read;                                 *)
(*   - _extract_python_skeleton (scripts/code_cleaner.py), line by line.   *)
(***************************************************************************)
EXTENDS Integers, Sequences, FiniteSets, TLC

VARIABLES
    \* ---- hollow_out_function_bodies: the locals of the scanner ----
    content,      \* the text being scanned, a sequence of characters
    i,            \* number of characters consumed (the code's index i)
    output,       \* the characters emitted so far ("".join(output))
    brace_depth,
    in_string,
    in_char,
    pass,         \* 1: scanning the original text, 2: scanning pass 1's output
    original,     \* the text pass 1 was given
    \* ---- the command line tool run against one output file ----
    artifact,       \* the text of the file at args.output
    has_artifact,   \* os.path.exists(args.output)
    args,           \* the arguments of the last run
    result,         \* what batch_import / extract_snippets returned in it
    existing_data,  \* what parse_existing_markdown returned: <<>> is None
    existing_after, \* the same object once merge_markdown_data has returned
    merged_data,    \* the dict generate_markdown went on to serialize
    raised,         \* the last run ended in an uncaught exception
    written,        \* the dict the artifact was serialized from
    prior,          \* the dict the artifact read by the last run was serialized from
    appends,        \* merges into the artifact since it was written afresh
    first_run,      \* the arguments and the result of the run that wrote it afresh
    repeats,        \* every run since has been that run again, with --append
    remerged,       \* merge_markdown_data(merged_data, result): <<>> before the call
    \* one call of the entity locator and of extract_snippets on a source file
    src_ext,        \* the file's extension
    src_text,       \* the file's text
    request,        \* the extraction spec
    clean_mode,     \* the collector's clean_mode: "none" or "skeleton"
    stage,          \* "idle", "ready", "located" or "extracted"
    located,        \* what _extract_by_name found: declaration line, end line, span
    extracted,      \* the snippet list and total_lines of extract_snippets
    \* one call of batch_import on a list of files
    batch_files,    \* the argument file_paths
    read_fault,     \* per position of the list: what goes wrong with that file
    batch_pos,      \* iterations of the loop over file_paths completed
    batch_acc,      \* result, collected_paths and the files opened so far
    batch_outcome,  \* "idle", "running", "returned" or "raised"
    batch_result,   \* the dict batch_import returned: <<>> before the return
    \* one call of _extract_python_skeleton
    py_lines,       \* content.splitlines()
    py_pos,         \* lines of it the loop has consumed
    py_locals,      \* result, skip_body_indent and pending_decorators
    py_skeleton     \* the returned text: <<>> before the return

skelVars == <<content, i, output, brace_depth, in_string, in_char, pass, original>>

docVars == <<artifact, has_artifact, args, result, existing_data, existing_after,
             merged_data, raised, written, prior, appends, first_run, repeats, remerged>>

locVars == <<src_ext, src_text, request, clean_mode, stage, located, extracted>>

batchVars == <<batch_files, read_fault, batch_pos, batch_acc, batch_outcome, batch_result>>

pyVars == <<py_lines, py_pos, py_locals, py_skeleton>>

vars == <<skelVars, docVars, locVars, batchVars, pyVars>>

\* no locator call is under way
LocIdle ==
    /\ src_ext = "" /\ src_text = <<>> /\ request = <<>> /\ clean_mode = "none"
    /\ stage = "idle" /\ located = <<>> /\ extracted = <<>>

\* no call of batch_import is under way
BatchIdle ==
    /\ batch_files = <<>> /\ read_fault = <<>> /\ batch_pos = 0 /\ batch_acc = <<>>
    /\ batch_outcome = "idle" /\ batch_result = <<>>

\* no call of _extract_python_skeleton is under way
PyIdle == py_lines = <<>> /\ py_pos = 0 /\ py_locals = <<>> /\ py_skeleton = <<>>

\* ------------------------------------------------------------------------
\* Generic helpers
\* ------------------------------------------------------------------------
Last(s) == s[Len(s)]

RECURSIVE CountIn(_, _)
CountIn(s, c) ==
    IF s = <<>> THEN 0
    ELSE (IF Last(s) = c THEN 1 ELSE 0) + CountIn(SubSeq(s, 1, Len(s) - 1), c)

SeqsUpTo(S, n) == UNION {[1..k -> S] : k \in 0..n}

\* ------------------------------------------------------------------------
\* hollow_out_function_bodies
\* ------------------------------------------------------------------------
DQ == "\""
SQ == "'"
BS == "\\"
OB == "{"
CB == "}"

\* The characters the scanned texts are drawn from.
Chars == {OB, CB, DQ, SQ, BS, "a"}

\* Longest text given to pass 1.
MaxLen == 4

\* ' /* ... */ ', appended to output as one list element and joined into it.
Placeholder == <<" ", "/", "*", " ", ".", ".", ".", " ", "*", "/", " ">>

\* The character at the code's 0-based index k.
CharAt(text, k) == text[k + 1]

\* a test that lets a quote behind a backslash toggle as well
NeverEscaped(text, k) == TRUE

\* (i == 0 or content[i - 1] != '\\')
NotEscaped(text, k) == IF k = 0 THEN TRUE ELSE CharAt(text, k - 1) # BS

\* if brace_depth == 0: output.append('{')
OpenEmitsLoose(depth) == depth <= 1
OpenEmits(depth) == depth = 0

\* brace_depth -= 1; if brace_depth == 0: output.append('}')
CloseEmits(depth) == depth - 1 = 0

\* elif brace_depth == 1 and output and output[-1] == '{'
\* (every element of the list but the placeholder is one character, and the
\* placeholder ends with a blank, so the last element is '{' exactly when the
\* last character is)
AfterOpen(out) == out # <<>> /\ Last(out) = OB

SkelInit ==
    /\ content \in SeqsUpTo(Chars, MaxLen)
    /\ original = content
    /\ i = 0
    /\ output = <<>>
    /\ brace_depth = 0
    /\ in_string = FALSE
    /\ in_char = FALSE
    /\ pass = 1
    /\ artifact = <<>> /\ has_artifact = FALSE /\ args = <<>> /\ result = <<>>
    /\ existing_data = <<>> /\ existing_after = <<>> /\ merged_data = <<>>
    /\ raised = FALSE /\ written = <<>> /\ prior = <<>> /\ appends = 0
    /\ first_run = <<>> /\ repeats = FALSE /\ remerged = <<>>
    /\ LocIdle
    /\ BatchIdle
    /\ PyIdle

Scanning == pass \in {1, 2} /\ i < Len(content)

\* if char == '"' and (i == 0 or content[i - 1] != '\\')
ScanStringQuote ==
    /\ Scanning
    /\ CharAt(content, i) = DQ /\ NotEscaped(content, i)
    /\ in_string' = ~in_string
    /\ output' = Append(output, CharAt(content, i))
    /\ i' = i + 1
    /\ UNCHANGED <<content, brace_depth, in_char, pass, original, docVars, locVars, batchVars, pyVars>>

\* if char == "'" and (i == 0 or content[i - 1] != '\\')
ScanCharQuote ==
    /\ Scanning
    /\ ~(CharAt(content, i) = DQ /\ NotEscaped(content, i))
    /\ CharAt(content, i) = SQ /\ NotEscaped(content, i)
    /\ in_char' = ~in_char
    /\ output' = Append(output, CharAt(content, i))
    /\ i' = i + 1
    /\ UNCHANGED <<content, brace_depth, in_string, pass, original, docVars, locVars, batchVars, pyVars>>

IsToggle(text, k) == CharAt(text, k) \in {DQ, SQ} /\ NotEscaped(text, k)

\* if in_string or in_char: output.append(char)
ScanLiteral ==
    /\ Scanning
    /\ ~IsToggle(content, i)
    /\ in_string \/ in_char
    /\ output' = Append(output, CharAt(content, i))
    /\ i' = i + 1
    /\ UNCHANGED <<content, brace_depth, in_string, in_char, pass, original, docVars, locVars, batchVars, pyVars>>

\* if char == '{'
ScanOpenBrace ==
    /\ Scanning
    /\ ~IsToggle(content, i)
    /\ ~(in_string \/ in_char)
    /\ CharAt(content, i) = OB
    /\ output' = IF OpenEmits(brace_depth) THEN Append(output, OB) ELSE output
    /\ brace_depth' = brace_depth + 1
    /\ i' = i + 1
    /\ UNCHANGED <<content, in_string, in_char, pass, original, docVars, locVars, batchVars, pyVars>>

\* elif char == '}'
ScanCloseBrace ==
    /\ Scanning
    /\ ~IsToggle(content, i)
    /\ ~(in_string \/ in_char)
    /\ CharAt(content, i) = CB
    /\ output' = IF CloseEmits(brace_depth) THEN Append(output, CB) ELSE output
    /\ brace_depth' = brace_depth - 1
    /\ i' = i + 1
    /\ UNCHANGED <<content, in_string, in_char, pass, original, docVars, locVars, batchVars, pyVars>>

\* else: any other character outside a literal
ScanOther ==
    /\ Scanning
    /\ ~IsToggle(content, i)
    /\ ~(in_string \/ in_char)
    /\ CharAt(content, i) \notin {OB, CB}
    /\ output' = IF brace_depth = 0 THEN Append(output, CharAt(content, i))
                 ELSE IF brace_depth = 1 /\ AfterOpen(output)
                      THEN output \o Placeholder
                      ELSE output
    /\ i' = i + 1
    /\ UNCHANGED <<content, brace_depth, in_string, in_char, pass, original, docVars, locVars, batchVars, pyVars>>

\* The caller applies the function to its own result: a second call starts
\* with fresh locals on the text the first call returned.
Rescan ==
    /\ pass = 1
    /\ i = Len(content)
    /\ content' = output
    /\ i' = 0
    /\ output' = <<>>
    /\ brace_depth' = 0
    /\ in_string' = FALSE
    /\ in_char' = FALSE
    /\ pass' = 2
    /\ UNCHANGED <<original, docVars, locVars, batchVars, pyVars>>

SkelNext ==
    \/ ScanStringQuote
    \/ ScanCharQuote
    \/ ScanLiteral
    \/ ScanOpenBrace
    \/ ScanCloseBrace
    \/ ScanOther
    \/ Rescan

SpecSkel == SkelInit /\ [][SkelNext]_vars

Returned == i = Len(content)

\* ---- the scan described independently of the scanner's locals ----
Indices(text) == 0..(Len(text) - 1)

QuoteToggles(text, q, k) ==
    Cardinality({j \in Indices(text) : j < k /\ CharAt(text, j) = q /\ NotEscaped(text, j)})

\* Index k is read with neither literal flag set and is not itself a quote
\* that toggles one.
Structural(text, k) ==
    /\ QuoteToggles(text, DQ, k) % 2 = 0
    /\ QuoteToggles(text, SQ, k) % 2 = 0
    /\ ~IsToggle(text, k)

StructuralAt(text, c, k) == CharAt(text, k) = c /\ Structural(text, k)

\* Opening minus closing braces read outside literals before index k.
DepthBefore(text, k) ==
    Cardinality({j \in Indices(text) : j < k /\ StructuralAt(text, OB, j)})
    - Cardinality({j \in Indices(text) : j < k /\ StructuralAt(text, CB, j)})

Depth0Opens(text) ==
    Cardinality({k \in Indices(text) : StructuralAt(text, OB, k) /\ DepthBefore(text, k) = 0})

ClosesToZero(text) ==
    Cardinality({k \in Indices(text) : StructuralAt(text, CB, k) /\ DepthBefore(text, k) = 1})

LiteralBraces(text, c) ==
    Cardinality({k \in Indices(text) : CharAt(text, k) = c /\ ~Structural(text, k)})

\* C3: hollow_out_function_bodies is idempotent for all inputs: the second
\* call, given the first call's result, returns that text unchanged.
C3_HollowIdempotent == (pass = 2 /\ Returned) => output = content

\* C4: skeletonize preserves depth-0 brace pairs: apart from the braces
\* copied inside literals, the returned text holds one '{' per input '{'
\* read outside literals at depth 0, one '}' per input '}' that returns the
\* depth to 0, and no other brace.
C4_Depth0BracesPreserved ==
    Returned =>
        /\ CountIn(output, OB) - LiteralBraces(content, OB) = Depth0Opens(content)
        /\ CountIn(output, CB) - LiteralBraces(content, CB) = ClosesToZero(content)

\* A returned scan of a text with a nested body and a brace inside a literal.
C4_Witness ==
    /\ Returned /\ pass = 1
    /\ Depth0Opens(content) >= 1 /\ ClosesToZero(content) >= 1
    /\ CountIn(content, OB) - LiteralBraces(content, OB) > Depth0Opens(content)

\* ------------------------------------------------------------------------
\* Text.  A Python string is the sequence of its lines (the string split on
\* "\n"), so "" is one empty line and a text ending in "\n" ends with an
\* empty line.  A line is a record: k names the fixed prefix the line starts
\* with and v is the rest of the line.
\* ------------------------------------------------------------------------
Ln(k, v) == [k |-> k, v |-> v]
Txt(v) == Ln("txt", v)
Blank == Txt("")
EmptyStr == <<Blank>>
Str(v) == <<Txt(v)>>

\* len(s.splitlines()) for newline-separated text
SplitLines(s) == IF Last(s) = Blank THEN SubSeq(s, 1, Len(s) - 1) ELSE s
LineCount(s) == Len(SplitLines(s))

\* "\n".join(lines)
JoinLines(ls) == IF ls = <<>> THEN EmptyStr ELSE ls

RECURSIVE SumSeq(_)
SumSeq(s) == IF s = <<>> THEN 0 ELSE s[1] + SumSeq(Tail(s))

SeqRange(s) == {s[n] : n \in DOMAIN s}

\* [f(x) for x in s]
MapSeq(s, F(_)) == [n \in DOMAIN s |-> F(s[n])]

RECURSIVE Flatten(_)
Flatten(ss) == IF ss = <<>> THEN <<>> ELSE ss[1] \o Flatten(Tail(ss))

\* ------------------------------------------------------------------------
\* The project directory the runs work on
\* ------------------------------------------------------------------------
Paths == {"a.py", "b.py", "big.c", "m.m", "system_x.c"}

\* sorted(): the order of the path strings
PathRank(p) ==
    CASE p = "a.py" -> 1 [] p = "b.py" -> 2 [] p = "big.c" -> 3
      [] p = "m.m" -> 4 [] p = "system_x.c" -> 5

FileText(p) ==
    CASE p = "a.py" -> <<Txt("def f():"), Txt("    return 1"), Txt("x = 2"), Blank>>
      [] p = "b.py" -> <<Txt("y = 1"), Blank>>
      [] p = "big.c" -> <<Txt("int g() {"), Txt("return 0;"), Txt("}"), Blank>>
      [] p = "m.m" -> <<Txt("int z;"), Blank>>
      [] p = "system_x.c" -> <<Txt("int s;"), Blank>>

\* Sizes are counted in 1/5120 KB, the unit in which both a byte (5 units)
\* and a tenth of a KB (512 units) are whole numbers.
UnitsPerByte == 5
UnitsPerTenth == 512
\* st_size of big.c: 600 KB and 25 bytes
BigFileBytes == 600 * 1024 + 25

\* abs_path.stat().st_size / 1024
FileSizeKb(p) == IF p = "big.c" THEN BigFileBytes * UnitsPerByte ELSE 20 * UnitsPerByte

\* self.config.get('max_file_size_kb', 500)
MaxSizeKb == 500

KbUnits(kb) == kb * 10 * UnitsPerTenth

\* f"{x:.1f}": the size rounded to tenths of a KB
Tenths(units) == (2 * units + UnitsPerTenth) \div (2 * UnitsPerTenth)

\* float(text)
TenthsToUnits(t) == t * UnitsPerTenth

\* Path(p).suffix
Suffix(p) ==
    CASE p \in {"a.py", "b.py"} -> ".py"
      [] p \in {"big.c", "system_x.c"} -> ".c"
      [] p = "m.m" -> ".m"
      [] OTHER -> ""

Languages == {"python", "c", "objective-c", "text"}

\* _detect_language: lang_map.get(ext, 'text')
DetectLanguage(p) ==
    CASE Suffix(p) = ".py" -> "python"
      [] Suffix(p) = ".c" -> "c"
      [] Suffix(p) = ".m" -> "objective-c"
      [] OTHER -> "text"

\* is_junk_filename: re.search(r'system_', filename, re.IGNORECASE)
IsJunkFilename(p) == p = "system_x.c"

\* config['core_files'] of the runs
CoreFiles == {"a.py"}

\* _is_core_file
IsCoreFile(path) == \E c \in CoreFiles : path = Str(c)

NoLangs == [l \in Languages |-> 0]
AddLang(langs, l, n) == [langs EXCEPT ![l] = @ + n]

\* ------------------------------------------------------------------------
\* Records of the document model.  A Python dict key that may be missing is
\* a field with a has_ flag.
\* ------------------------------------------------------------------------
FileInfo(path, language, text, has_meta, lines, size_kb) ==
    [path |-> path, language |-> language, content |-> text,
     has_meta |-> has_meta, lines |-> lines, size_kb |-> size_kb]

\* size: "absent" (no key), "none" (None) or "num"
Skipped(path, reason, size, size_kb, has_lines, lines) ==
    [path |-> path, reason |-> reason, size |-> size, size_kb |-> size_kb,
     has_lines |-> has_lines, lines |-> lines]

Snippet(type, name, range, text, has_lines, lines) ==
    [type |-> type, name |-> name, range |-> range, content |-> text,
     has_lines |-> has_lines, lines |-> lines]

SnippetGroup(file_path, snippets) == [file_path |-> file_path, snippets |-> snippets]

Stats(total_files, total_lines, languages) ==
    [total_files |-> total_files, total_lines |-> total_lines, languages |-> languages]

\* kind "batch": the dict batch_import returns; "snippets": the dict
\* extract_snippets returns; "snapshot": the dict parse_existing_markdown and
\* merge_markdown_data return.
Data(kind, header, files, core, other, snippets, structure, stats, skipped_files) ==
    [kind |-> kind, header |-> header, files |-> files, core |-> core, other |-> other,
     snippets |-> snippets, structure |-> structure, stats |-> stats,
     skipped_files |-> skipped_files]

\* "files" in data, "snippets" in data, ...
HasFiles(d) == d.kind \in {"batch", "snapshot"}
HasSnippets(d) == d.kind \in {"snippets", "snapshot"}
HasStructure(d) == d.kind \in {"batch", "snapshot"}
HasSkipped(d) == d.kind \in {"batch", "snapshot"}

\* ------------------------------------------------------------------------
\* batch_import
\* ------------------------------------------------------------------------
\* f"文件过大 ({file_size_kb:.1f} KB > {max_size_kb} KB)"
TooLargeReason(size) ==
    "too large (" \o ToString(Tenths(size)) \o " tenths KB > " \o ToString(MaxSizeKb) \o " KB)"

JunkReason == "junk file (filtered)"

\* _generate_tree_structure for paths without directories: one "name/" line
\* per distinct name, sorted
RECURSIVE SortedPaths(_)
SortedPaths(S) ==
    IF S = {} THEN <<>>
    ELSE LET p == CHOOSE x \in S : \A y \in S : PathRank(x) <= PathRank(y)
         IN <<p>> \o SortedPaths(S \ {p})

GenerateTreeStructure(collected) ==
    IF collected = <<>> THEN EmptyStr
    ELSE MapSeq(SortedPaths(SeqRange(collected)), LAMBDA p : Ln("tree", p))

\* "编码错误，无法读取"
EncodingReason == "encoding error, cannot read"

\* What goes wrong with one file of the list once `exists() and is_file()`
\* has passed: nothing; its bytes are not UTF-8; it is deleted before
\* stat(), or before the open; the process may not open it.
ReadFaults == {"none", "undecodable", "vanished_at_stat", "vanished_at_open", "denied"}

\* abs_path.stat() raises FileNotFoundError for a file that is gone
StatRaises(fault) == fault = "vanished_at_stat"

\* _count_lines: the file is opened in binary mode and iterated to its end;
\* the bare except turns every failure into None
CountLines(p, fault) ==
    IF fault \in {"vanished_at_open", "denied"}
    THEN [has_lines |-> FALSE, lines |-> 0]
    ELSE [has_lines |-> TRUE, lines |-> LineCount(FileText(p))]

\* _read_file_safely: open(path, 'r', encoding=...) for utf-8, gbk, gb2312 and
\* latin-1 in turn.  UnicodeDecodeError and FileNotFoundError move on to the
\* next encoding, any other exception of open() or read() leaves the
\* function; latin-1 decodes every byte string, so bytes that are not UTF-8
\* come back as the text of a later encoding, with the same line breaks.
ReadFileSafely(p, fault) ==
    CASE fault = "denied" -> [raises |-> TRUE, has_content |-> FALSE, content |-> <<>>]
      [] fault = "vanished_at_open" ->
             [raises |-> FALSE, has_content |-> FALSE, content |-> <<>>]
      [] OTHER -> [raises |-> FALSE, has_content |-> TRUE, content |-> FileText(p)]

\* result and collected_paths before the loop; opened lists the files the
\* call has opened, raised tells that an exception left the loop
BatchStart ==
    [files |-> <<>>, skipped_files |-> <<>>, collected |-> <<>>,
     total_lines |-> 0, languages |-> NoLangs, opened |-> <<>>, raised |-> FALSE]

\* One iteration of the loop over file_paths for a file with the given
\* fault, under the collector's remove_junk setting
BatchStepWith(acc, p, fault, remove_junk) ==
    IF p \notin Paths THEN acc
    ELSE IF StatRaises(fault) THEN [acc EXCEPT !.raised = TRUE]
    ELSE IF FileSizeKb(p) > KbUnits(MaxSizeKb)
    THEN [acc EXCEPT
             !.skipped_files = Append(@,
                 Skipped(p, TooLargeReason(FileSizeKb(p)), "num", FileSizeKb(p),
                         CountLines(p, fault).has_lines, CountLines(p, fault).lines)),
             !.opened = Append(@, p)]
    ELSE IF ReadFileSafely(p, fault).raises
    THEN [acc EXCEPT !.raised = TRUE, !.opened = Append(@, p)]
    ELSE IF ~ReadFileSafely(p, fault).has_content
    THEN [acc EXCEPT
             !.skipped_files = Append(@, Skipped(p, EncodingReason, "absent", 0, FALSE, 0)),
             !.opened = Append(@, p)]
    ELSE IF remove_junk /\ IsJunkFilename(p)
    THEN [acc EXCEPT
             !.skipped_files = Append(@, Skipped(p, JunkReason, "absent", 0, FALSE, 0)),
             !.opened = Append(@, p)]
    ELSE [acc EXCEPT
             !.files = Append(@, FileInfo(Str(p), DetectLanguage(p),
                                          ReadFileSafely(p, fault).content, TRUE,
                                          LineCount(ReadFileSafely(p, fault).content),
                                          FileSizeKb(p))),
             !.collected = Append(@, p),
             !.total_lines = @ + LineCount(ReadFileSafely(p, fault).content),
             !.languages = AddLang(@, DetectLanguage(p), 1),
             !.opened = Append(@, p)]

\* One iteration for a file that is read without a fault
BatchStep(acc, p, remove_junk) == BatchStepWith(acc, p, "none", remove_junk)

RECURSIVE BatchLoop(_, _, _)
BatchLoop(acc, file_paths, remove_junk) ==
    IF file_paths = <<>> THEN acc
    ELSE BatchLoop(BatchStep(acc, file_paths[1], remove_junk), Tail(file_paths), remove_junk)

\* total_files, the tree of collected_paths and `return result`
BatchResult(acc) ==
    Data("batch", EmptyStr, acc.files, <<>>, <<>>, <<>>,
         GenerateTreeStructure(acc.collected),
         Stats(Len(acc.files), acc.total_lines, acc.languages),
         acc.skipped_files)

BatchImport(file_paths, remove_junk) ==
    BatchResult(BatchLoop(BatchStart, file_paths, remove_junk))

\* ------------------------------------------------------------------------
\* extract_snippets and the entity locator
\* ------------------------------------------------------------------------
Min(a, b) == IF a < b THEN a ELSE b
Max(a, b) == IF a > b THEN a ELSE b

\* Python's lst[start:end]
SliceIndex(k, n) == IF k < 0 THEN Max(k + n, 0) ELSE Min(k, n)
PySlice(lst, start, end) ==
    LET lo == SliceIndex(start, Len(lst))
        hi == SliceIndex(end, Len(lst))
    IN IF lo < hi THEN SubSeq(lst, lo + 1, hi) ELSE <<>>

\* What the regular expressions and character tests see in the lines of the
\* source files: the project's files and the files of the locator runs.
Indent(v) == IF v \in {"    return 1", "    def f():", "    @dec"} THEN 4 ELSE 0

\* A declaration line: its leading keyword (or return type), the declared
\* name, and the first non-blank character after the name.
NoDecl == [kw |-> "", name |-> "", next |-> ""]
Decl(v) ==
    CASE v \in {"def f():", "    def f():"} -> [kw |-> "def", name |-> "f", next |-> "("]
      [] v = "def fg():" -> [kw |-> "def", name |-> "fg", next |-> "("]
      [] v = "async def h():" -> [kw |-> "async def", name |-> "h", next |-> "("]
      [] v = "class C:" -> [kw |-> "class", name |-> "C", next |-> ":"]
      [] v = "int g() {" -> [kw |-> "int", name |-> "g", next |-> "("]
      [] v = "int h() {" -> [kw |-> "int", name |-> "h", next |-> "("]
      [] v = "fn get() {" -> [kw |-> "fn", name |-> "get", next |-> "("]
      [] v = "fn get_all() {" -> [kw |-> "fn", name |-> "get_all", next |-> "("]
      [] v = "struct P {" -> [kw |-> "struct", name |-> "P", next |-> "{"]
      [] v = "class Foo {" -> [kw |-> "class", name |-> "Foo", next |-> "{"]
      [] v = "class FooBar {" -> [kw |-> "class", name |-> "FooBar", next |-> "{"]
      [] v = "type T struct {" -> [kw |-> "type", name |-> "T", next |-> "s"]
      [] OTHER -> NoDecl

\* the name a line declares with "def"
NameIfDef(d) == IF d.kw = "def" THEN d.name ELSE ""
DefName(v) == NameIfDef(Decl(v))

\* the \b-delimited words of a line
Words(v) ==
    CASE v \in {"def f():", "    def f():"} -> {"def", "f"}
      [] v = "def fg():" -> {"def", "fg"}
      [] v = "    return 1" -> {"return", "1"}
      [] v = "x = 2" -> {"x", "2"}
      [] v = "y = 1" -> {"y", "1"}
      [] v = "int g() {" -> {"int", "g"}
      [] v = "int h() {" -> {"int", "h"}
      [] v \in {"g();", "} g() {"} -> {"g"}
      [] v = "return 0;" -> {"return", "0"}
      [] v = "int z;" -> {"int", "z"}
      [] v = "int s;" -> {"int", "s"}
      [] OTHER -> {}

\* the braces of a line, in order, before any "//"
BraceChars(v) ==
    CASE v \in {"int g() {", "int h() {", "fn get() {", "fn get_all() {", "struct P {",
                "class Foo {", "class FooBar {", "type T struct {"} -> <<OB>>
      [] v = "}" -> <<CB>>
      [] v = "} g() {" -> <<CB, OB>>
      [] OTHER -> <<>>

\* a name that begins with the requested name: what a pattern ending in
\* {name}\s* accepts
NameTails == {"", "_all", "Bar", "g"}
StartsWith(s, prefix) == \E rest \in NameTails : s = prefix \o rest

\* The pattern _extract_by_name builds for a file extension and element
\* type; "none" where it returns (None, 0) at once.
DeclPattern(file_ext, element_type) ==
    CASE file_ext = ".py" ->
           (CASE element_type = "function" -> "py_def"
              [] element_type = "class" -> "py_class"
              [] OTHER -> "none")
      [] file_ext \in {".js", ".ts", ".jsx", ".tsx", ".html", ".htm", ".vue"} ->
           (CASE element_type = "function" -> "js_function"
              [] element_type = "class" -> "js_class"
              [] OTHER -> "none")
      [] file_ext \in {".java", ".kt", ".cs"} ->
           (CASE element_type \in {"function", "method"} -> "java_method"
              [] element_type = "class" -> "java_class"
              [] OTHER -> "none")
      [] file_ext = ".go" ->
           (CASE element_type \in {"function", "method"} -> "go_func"
              [] element_type = "type" -> "go_type"
              [] OTHER -> "none")
      [] file_ext = ".rs" ->
           (CASE element_type \in {"function", "method"} -> "rs_fn"
              [] element_type = "struct" -> "rs_struct"
              [] element_type = "enum" -> "rs_enum"
              [] OTHER -> "none")
      [] file_ext \in {".cpp", ".cc", ".cxx", ".hpp"} ->
           (CASE element_type \in {"function", "method"} -> "cpp_function"
              [] element_type = "class" -> "cpp_class"
              [] OTHER -> "none")
      [] OTHER -> "word"

\* what a pattern accepts of a declaration d and of the line's words
PatternAccepts(pattern, name, d, words) ==
    CASE pattern = "py_def" -> d.kw = "def" /\ d.name = name
      [] pattern = "py_class" -> d.kw = "class" /\ d.name = name /\ d.next \in {"(", ":"}
      [] pattern = "js_function" ->
           \/ d.kw \in {"function", "async function"} /\ d.name = name /\ d.next = "("
           \/ d.kw \in {"const", "let", "var"} /\ d.name = name /\ d.next = "="
      [] pattern \in {"js_class", "java_class"} -> d.kw = "class" /\ StartsWith(d.name, name)
      [] pattern = "java_method" -> d.kw # "" /\ d.name = name /\ d.next = "("
      [] pattern = "go_func" -> d.kw = "func" /\ d.name = name /\ d.next = "("
      [] pattern = "go_type" -> d.kw = "type" /\ StartsWith(d.name, name)
      [] pattern = "rs_fn" -> d.kw \in {"fn", "pub fn"} /\ StartsWith(d.name, name)
      [] pattern = "rs_struct" -> d.kw \in {"struct", "pub struct"} /\ StartsWith(d.name, name)
      [] pattern = "rs_enum" -> d.kw \in {"enum", "pub enum"} /\ StartsWith(d.name, name)
      [] pattern = "cpp_function" ->
           d.kw \notin {"", "async function"} /\ d.name = name /\ d.next = "("
      [] pattern = "cpp_class" -> d.kw = "class" /\ d.name = name /\ d.next \in {":", "{"}
      [] pattern = "word" -> name \in words
      [] OTHER -> FALSE

\* re.search(pattern, line)
PatternMatches(pattern, name, line) ==
    line.k = "txt" /\ PatternAccepts(pattern, name, Decl(line.v), Words(line.v))

BraceLanguages == {".js", ".ts", ".jsx", ".tsx", ".html", ".htm", ".vue", ".java", ".kt",
                   ".cs", ".cpp", ".c", ".cc", ".cxx", ".h", ".hpp", ".go", ".rs"}

\* _find_closing_brace: st is [count, found, end]; end >= 0 once returned
BraceCharStep(st, char, k) ==
    IF st.end >= 0 THEN st
    ELSE LET count == IF char = OB THEN st.count + 1
                      ELSE IF char = CB THEN st.count - 1 ELSE st.count
             found == st.found \/ char = OB
         IN [count |-> count, found |-> found,
             end |-> IF found /\ count = 0 THEN k + 1 ELSE -1]

RECURSIVE BraceLineScan(_, _, _)
BraceLineScan(st, chars, k) ==
    IF chars = <<>> THEN st
    ELSE BraceLineScan(BraceCharStep(st, chars[1], k), Tail(chars), k)

RECURSIVE BraceScan(_, _, _)
BraceScan(st, lines, k) ==
    IF st.end >= 0 THEN st.end
    ELSE IF k >= Len(lines) THEN Len(lines)
    ELSE BraceScan(BraceLineScan(st, BraceChars(lines[k + 1].v), k), lines, k + 1)

FindClosingBrace(lines, start_line) ==
    BraceScan([count |-> 0, found |-> FALSE, end |-> -1], lines, start_line)

\* if current_indent <= base_indent and line.strip(), on a non-blank line
EndsBlockStrict(v, base_indent) == Indent(v) < base_indent
EndsBlock(v, base_indent) == Indent(v) <= base_indent

\* _find_end_by_indent
RECURSIVE IndentScan(_, _, _)
IndentScan(lines, base_indent, k) ==
    IF k >= Len(lines) THEN Len(lines)
    ELSE IF lines[k + 1].v = "" THEN IndentScan(lines, base_indent, k + 1)
    ELSE IF EndsBlock(lines[k + 1].v, base_indent) THEN k
    ELSE IndentScan(lines, base_indent, k + 1)

FindEndByIndent(lines, start_line) ==
    IndentScan(lines, Indent(lines[start_line + 1].v), start_line + 1)

\* ---- the skeleton post-pass of _extract_by_name, on line-structured text ----
\* The lines of the source files hold no quote and no backslash, and a brace
\* only as their last character: a line is a run of plain characters, then
\* at most one brace.
TextBeforeBrace(v) ==
    CASE v = "int g() {" -> "int g() "
      [] v = "int h() {" -> "int h() "
      [] v = "fn get() {" -> "fn get() "
      [] v = "fn get_all() {" -> "fn get_all() "
      [] v = "struct P {" -> "struct P "
      [] v = "class Foo {" -> "class Foo "
      [] v = "class FooBar {" -> "class FooBar "
      [] v = "type T struct {" -> "type T struct "
      [] v = "}" -> ""
      [] OTHER -> v

NL == "\n"
PlaceholderText == " /* ... */ "

\* The characters of a text as the scanner's loop tells them apart: "{",
\* "}", "\n" and runs of other characters (a run behaves as its first
\* character does: all of it is emitted, replaced or dropped).
LineTokens(v) ==
    IF v = "} g() {" THEN <<CB, " g() ", OB>>
    ELSE (IF TextBeforeBrace(v) = "" THEN <<>> ELSE <<TextBeforeBrace(v)>>) \o BraceChars(v)

RECURSIVE TextTokens(_)
TextTokens(text) ==
    IF Len(text) = 1 THEN LineTokens(text[1].v)
    ELSE LineTokens(text[1].v) \o <<NL>> \o TextTokens(Tail(text))

\* one iteration of the loop of hollow_out_function_bodies, outside literals
HollowStep(st, tok) ==
    CASE tok = OB -> [out |-> IF OpenEmits(st.depth) THEN Append(st.out, OB) ELSE st.out,
                      depth |-> st.depth + 1]
      [] tok = CB -> [out |-> IF CloseEmits(st.depth) THEN Append(st.out, CB) ELSE st.out,
                      depth |-> st.depth - 1]
      [] OTHER -> [out |-> IF st.depth = 0 THEN Append(st.out, tok)
                           ELSE IF st.depth = 1 /\ AfterOpen(st.out)
                                THEN Append(st.out, PlaceholderText)
                                ELSE st.out,
                   depth |-> st.depth]

RECURSIVE HollowScan(_, _)
HollowScan(st, toks) ==
    IF toks = <<>> THEN st.out ELSE HollowScan(HollowStep(st, toks[1]), Tail(toks))

\* ''.join(output), as the lines of the joined string
RECURSIVE JoinTokens(_, _)
JoinTokens(done, toks) ==
    IF toks = <<>> THEN done
    ELSE IF toks[1] = NL THEN JoinTokens(Append(done, Blank), Tail(toks))
    ELSE JoinTokens([done EXCEPT ![Len(done)] = Txt(done[Len(done)].v \o toks[1])],
                    Tail(toks))

HollowOutFunctionBodies(text) ==
    JoinTokens(EmptyStr, HollowScan([out |-> <<>>, depth |-> 0], TextTokens(text)))

\* stripped.startswith('@')
StartsDecorator(v) == v \in {"@dec", "    @dec"}

\* stripped.startswith('def ') or ... 'async def ' or ... 'class '
StartsDeclaration(v) == Decl(v).kw \in {"def", "async def", "class"}

\* a test that takes a class for a function as well
StartsFunctionOrClass(v) == Decl(v).kw \in {"def", "async def", "class"}

\* stripped.startswith('def ') or stripped.startswith('async def ')
StartsFunction(v) == Decl(v).kw \in {"def", "async def"}

\* the locals before the loop; skip is skip_body_indent, -1 for None
PythonSkeletonStart == [result |-> <<>>, skip |-> 0 - 1, pending_decorators |-> <<>>]

\* a line that is no decorator and no declaration, with the buffer left as it is
OtherLineKeepsPending(st) == [st EXCEPT !.skip = 0 - 1]

\* a line that is no decorator and no declaration: pending_decorators = []
OtherLine(st) == [st EXCEPT !.skip = 0 - 1, !.pending_decorators = <<>>]

\* one iteration of the loop of _extract_python_skeleton
PythonSkeletonStep(st, v) ==
    IF st.skip >= 0 /\ (v = "" \/ Indent(v) > st.skip) THEN st
    ELSE IF StartsDecorator(v)
    THEN [st EXCEPT !.skip = 0 - 1, !.pending_decorators = Append(@, Txt(v))]
    ELSE IF StartsDeclaration(v)
    THEN [result |-> st.result \o st.pending_decorators \o <<Txt(v)>>,
          skip |-> IF StartsFunction(v) THEN Indent(v) ELSE 0 - 1,
          pending_decorators |-> <<>>]
    ELSE OtherLine(st)

RECURSIVE PythonSkeletonLoop(_, _)
PythonSkeletonLoop(st, lines) ==
    IF lines = <<>> THEN st.result
    ELSE PythonSkeletonLoop(PythonSkeletonStep(st, lines[1].v), Tail(lines))

ExtractPythonSkeleton(text) ==
    JoinLines(PythonSkeletonLoop(PythonSkeletonStart, SplitLines(text)))

ExtractCodeSkeleton(text, ext) ==
    IF ext = ".py" THEN ExtractPythonSkeleton(text) ELSE HollowOutFunctionBodies(text)

NotFound == [found |-> FALSE, content |-> EmptyStr, lines |-> 0]

\* the loop of lines 794-798: the first line the pattern matches, -1 if none
FirstOf(hits) == IF hits = {} THEN -1 ELSE CHOOSE k \in hits : \A j \in hits : k <= j
DeclarationLine(lines, pattern, name) ==
    IF pattern = "none" THEN -1
    ELSE FirstOf({k \in 0..(Len(lines) - 1) : PatternMatches(pattern, name, lines[k + 1])})

\* the end-finding strategy of the extension
EndLine(lines, start_line, file_ext) ==
    IF file_ext \in BraceLanguages
    THEN FindClosingBrace(lines, start_line)
    ELSE FindEndByIndent(lines, start_line)

\* _extract_by_name with skeleton_mode False
Returns(snippet_lines) ==
    [found |-> TRUE, content |-> JoinLines(snippet_lines), lines |-> Len(snippet_lines)]
SpanFrom(lines, start_line, file_ext) ==
    IF start_line < 0 THEN NotFound
    ELSE Returns(PySlice(lines, start_line, EndLine(lines, start_line, file_ext)))
LocateIn(lines, name, element_type, file_ext) ==
    SpanFrom(lines, DeclarationLine(lines, DeclPattern(file_ext, element_type), name), file_ext)
ExtractByName(text, name, element_type, file_ext) ==
    LocateIn(SplitLines(text), name, element_type, file_ext)

\* _extract_by_name(content, name, element_type, file_ext, skeleton_mode)
ReturnsCleaned(cleaned) == [found |-> TRUE, content |-> cleaned, lines |-> LineCount(cleaned)]
SkeletonPass(r, file_ext, skeleton_mode) ==
    IF ~skeleton_mode \/ ~r.found THEN r
    ELSE ReturnsCleaned(ExtractCodeSkeleton(r.content, file_ext))
Locator(text, name, element_type, file_ext, skeleton_mode) ==
    SkeletonPass(ExtractByName(text, name, element_type, file_ext), file_ext, skeleton_mode)

\* An extraction spec of the ranges argument.
LinesSpec(start, end) == [type |-> "lines", name |-> "", start |-> start, end |-> end]
NamedSpec(type, name) == [type |-> type, name |-> name, start |-> 0, end |-> 0]

\* f"{start + 1}-{end}"
RangeLabel(start, end) == ToString(start) \o "-" \o ToString(end)

\* lines 189-196: the snippet of a line range
LinesSnippet(range_spec, snippet_lines) ==
    <<Snippet("lines", "", RangeLabel(range_spec.start, range_spec.end),
              JoinLines(snippet_lines), TRUE, Len(snippet_lines))>>

\* lines 209-215: the snippet of a named entity, if any content came back
NamedSnippet(range_spec, r) ==
    IF r.found /\ r.content # EmptyStr
    THEN <<Snippet(range_spec.type, range_spec.name, "", r.content, TRUE, r.lines)>>
    ELSE <<>>

\* The body of the loop over ranges, on a file's text: the snippets one spec
\* adds (none or one).
SnippetsOfText(text, file_ext, range_spec, skeleton_mode) ==
    IF range_spec.type = "lines"
    THEN LinesSnippet(range_spec,
                      PySlice(SplitLines(text), range_spec.start - 1, range_spec.end))
    ELSE IF range_spec.type \in {"function", "class", "method"}
    THEN NamedSnippet(range_spec,
                      Locator(text, range_spec.name, range_spec.type, file_ext,
                              skeleton_mode))
    ELSE <<>>

SnippetsOfSpec(file_path, range_spec) ==
    SnippetsOfText(FileText(file_path), Suffix(file_path), range_spec, FALSE)

\* the snippet list and total_lines after the loop over ranges
WithTotal(snippets) ==
    [snippets |-> snippets, total_lines |-> SumSeq(MapSeq(snippets, LAMBDA sn : sn.lines))]
ExtractFrom(text, file_ext, ranges, skeleton_mode) ==
    WithTotal(Flatten(MapSeq(ranges, LAMBDA r : SnippetsOfText(text, file_ext, r,
                                                               skeleton_mode))))

SnippetsResult(file_path, r) ==
    Data("snippets", EmptyStr, <<>>, <<>>, <<>>,
         <<SnippetGroup(file_path, r.snippets)>>, EmptyStr,
         Stats(1, r.total_lines, AddLang(NoLangs, DetectLanguage(file_path), 1)),
         <<>>)
ExtractSnippets(file_path, ranges) ==
    SnippetsResult(file_path, ExtractFrom(FileText(file_path), Suffix(file_path), ranges, FALSE))

\* ------------------------------------------------------------------------
\* generate_markdown: the artifact is a sequence of newline-terminated lines
\* ------------------------------------------------------------------------
H2(title) == Ln("h2", title)
Fence(lang) == Ln("fence", lang)
Rule == <<Blank, Txt("---"), Blank>>

\* prefix + text: the prefix opens the first line of the text
Prefixed(k, text) == <<Ln(k, text[1].v)>> \o Tail(text)

\* _format_file_section
FormatFileSection(file_info) ==
    Prefixed("h3file", file_info.path) \o <<Blank, Fence(file_info.language)>>
    \o file_info.content \o <<Fence("")>> \o Rule

\* snippet['type'].title()
TitleKind(type) ==
    CASE type = "function" -> "h3Function"
      [] type = "class" -> "h3Class"
      [] type = "method" -> "h3Method"
      [] OTHER -> "h3Other"

\* _format_snippet_section
FormatSnippetSection(snippet) ==
    (IF snippet.type = "lines" THEN <<Ln("h3lines", snippet.range)>>
     ELSE <<Ln(TitleKind(snippet.type), snippet.name)>>)
    \o <<Blank, Fence("")>> \o snippet.content \o <<Fence("")>> \o Rule

FormatSnippetGroup(group) ==
    <<Ln("h2snip", group.file_path), Blank>>
    \o Flatten(MapSeq(group.snippets, FormatSnippetSection))

FormatBucket(title, files) ==
    IF files = <<>> THEN <<>>
    ELSE <<H2(title), Blank>> \o Flatten(MapSeq(files, FormatFileSection))

\* the core and the other files generate_markdown writes for data
CoreOf(data) ==
    IF data.kind = "snapshot" THEN data.core
    ELSE SelectSeq(data.files, LAMBDA f : IsCoreFile(f.path))
OtherOf(data) ==
    IF data.kind = "snapshot" THEN data.other
    ELSE SelectSeq(data.files, LAMBDA f : ~IsCoreFile(f.path))

FormatStats(stats) ==
    <<H2("stats"), Blank, Ln("statFiles", stats.total_files),
      Ln("statLines", stats.total_lines)>>
    \o (IF stats.languages # NoLangs THEN <<Ln("statLangs", stats.languages)>> ELSE <<>>)

\* f"{skipped['size_kb']:.1f}" raises TypeError on None
SkippedRaises(skipped) == skipped.size = "none"

FormatSkipped(skipped) ==
    <<Ln("h3", skipped.path), Blank, Ln("reason", skipped.reason)>>
    \o (IF skipped.size # "absent" THEN <<Ln("size", Tenths(skipped.size_kb))>> ELSE <<>>)
    \o (IF skipped.has_lines /\ skipped.lines # 0 THEN <<Ln("est", skipped.lines)>> ELSE <<>>)
    \o <<Ln("advice", ""), Blank>>

\* generate_markdown after the merge step: [raised, text]
Serialize(data, user_intent, append_mode) ==
    LET head == <<Txt("# Project: proj"),
                  Txt(IF append_mode THEN "**updated**: now" ELSE "**generated**: now")>>
                \o (IF user_intent # "" THEN <<Ln("purpose", user_intent)>> ELSE <<>>)
                \o Rule
        structure == IF HasStructure(data) /\ data.structure # EmptyStr
                     THEN <<H2("struct"), Blank, Fence("text")>> \o data.structure
                          \o <<Fence("")>> \o Rule
                     ELSE <<>>
        files == IF HasFiles(data)
                 THEN FormatBucket("core", CoreOf(data)) \o FormatBucket("other", OtherOf(data))
                 ELSE <<>>
        snippets == IF HasSnippets(data)
                    THEN Flatten(MapSeq(data.snippets, FormatSnippetGroup))
                    ELSE <<>>
        skipped == IF HasSkipped(data) /\ data.skipped_files # <<>>
                   THEN Rule \o <<H2("skipped"), Blank, Txt("intro"), Blank>>
                        \o Flatten(MapSeq(data.skipped_files, FormatSkipped))
                   ELSE <<>>
        intent == IF user_intent # ""
                  THEN Rule \o <<H2("intent"), Blank, Txt(user_intent), Blank, Txt("hint")>>
                  ELSE <<>>
    IN IF HasSkipped(data) /\ \E n \in DOMAIN data.skipped_files :
                                  SkippedRaises(data.skipped_files[n])
       THEN [raised |-> TRUE, text |-> <<>>]
       ELSE [raised |-> FALSE,
             text |-> head \o structure \o files \o snippets \o FormatStats(data.stats)
                      \o skipped \o intent]

\* ------------------------------------------------------------------------
\* parse_existing_markdown: what its regular expressions match in a text of
\* newline-terminated lines
\* ------------------------------------------------------------------------
\* smallest index >= from whose line passes the test, 0 if there is none
FirstIndex(text, from, T(_)) ==
    LET hits == {n \in from..Len(text) : T(text[n])}
    IN IF hits = {} THEN 0 ELSE CHOOSE n \in hits : \A j \in hits : n <= j

\* the same, Len(text) + 1 if there is none
FirstIndexOrEnd(text, from, T(_)) ==
    LET n == FirstIndex(text, from, T) IN IF n = 0 THEN Len(text) + 1 ELSE n

\* ^##  (re.MULTILINE)
StartsH2(line) == line.k \in {"h2", "h2snip"}
\* ``` at the start of a line
StartsFence(line) == line.k = "fence"
\* a line \s* runs across
IsBlankLine(line) == line = Blank
NotBlankLine(line) == line # Blank
\* the line holds "### "
HoldsH3(line) == line.k \in {"h3", "h3file", "h3lines", "h3Function", "h3Class", "h3Method", "h3Other"}

\* (\w+)?\n after ```: nothing, or word characters only, up to the line's end
WordOrEmpty(v) == v # "objective-c"
\* ```(\w+)?\n
FileFenceOpens(line) == StartsFence(line) /\ WordOrEmpty(line.v)
\* ```.*?\n
AnyFenceOpens(line) == StartsFence(line)

\* (.*?)\n```  read from the line after the opening fence at f: the index of
\* the closing fence line, 0 if there is none
ClosingFence(text, f) == FirstIndex(text, f + 2, StartsFence)

\* r'^(.*?)(?=^## )'
ParseHeader(text) ==
    LET h == FirstIndex(text, 1, StartsH2)
    IN IF h = 0 THEN EmptyStr ELSE SubSeq(text, 1, h - 1) \o <<Blank>>

\* r'## 📁 目录结构\s*\n\s*```(?:text)?\n(.*?)\n```'
StructureMatchAt(text, s) ==
    LET f == FirstIndex(text, s + 1, NotBlankLine)
    IN /\ text[s] = H2("struct")
       /\ f # 0
       /\ StartsFence(text[f]) /\ text[f].v \in {"text", ""}
       /\ ClosingFence(text, f) # 0

ParseStructure(text) ==
    LET hits == {s \in DOMAIN text : StructureMatchAt(text, s)}
    IN IF hits = {} THEN EmptyStr
       ELSE LET s == CHOOSE n \in hits : \A j \in hits : n <= j
                f == FirstIndex(text, s + 1, NotBlankLine)
            IN SubSeq(text, f + 1, ClosingFence(text, f) - 1)

\* r'## <title>\s*\n(.*?)(?=^## |\Z)': [found, lines]
SectionBody(text, b) ==
    [found |-> TRUE, lines |-> SubSeq(text, b, FirstIndexOrEnd(text, b, StartsH2) - 1)]
SectionAt(text, s) ==
    IF s = 0 THEN [found |-> FALSE, lines |-> <<>>]
    ELSE SectionBody(text, FirstIndexOrEnd(text, s + 1, NotBlankLine))
ParseSection(text, title) == SectionAt(text, FirstIndex(text, 1, LAMBDA l : l = H2(title)))

\* A match of  <header>(.+?)\n\s*<opening fence>\n(.*?)\n```  whose header
\* is the line at s: the lazy name group ends at the end of the first line e
\* after which blank lines, an opening fence and, later, a closing fence
\* follow.  [ok, e, f, c]
FencedMatchAt(text, s, Opens(_), extends) ==
    LET ends == {e \in s..(IF extends THEN Len(text) ELSE s) :
                    LET f == FirstIndex(text, e + 1, NotBlankLine)
                    IN f # 0 /\ Opens(text[f]) /\ ClosingFence(text, f) # 0}
    IN IF ends = {} THEN [ok |-> FALSE, e |-> 0, f |-> 0, c |-> 0]
       ELSE LET e == CHOOSE n \in ends : \A j \in ends : n <= j
                f == FirstIndex(text, e + 1, NotBlankLine)
            IN [ok |-> TRUE, e |-> e, f |-> f, c |-> ClosingFence(text, f)]

\* re.finditer of such a pattern from line `from` on: the matches in order,
\* each [hdr, name, lang, content]; the search resumes behind the closing fence
RECURSIVE FencedMatches(_, _, _, _, _)
FencedMatches(text, from, Hdr(_), Opens(_), extends) ==
    LET starts == {s \in from..Len(text) :
                      Hdr(text[s]) /\ FencedMatchAt(text, s, Opens, extends).ok}
    IN IF starts = {} THEN <<>>
       ELSE LET s == CHOOSE n \in starts : \A j \in starts : n <= j
                m == FencedMatchAt(text, s, Opens, extends)
            IN <<[hdr |-> text[s],
                  name |-> <<Txt(text[s].v)>> \o SubSeq(text, s + 1, m.e),
                  lang |-> text[m.f].v,
                  content |-> SubSeq(text, m.f + 1, m.c - 1)]>>
               \o FencedMatches(text, m.c + 1, Hdr, Opens, extends)

\* _parse_file_sections: r'### File: (.+?)\n\s*```(\w+)?\n(.*?)\n```'
ParseFileSections(section) ==
    MapSeq(FencedMatches(section, 1, LAMBDA l : l.k = "h3file", FileFenceOpens, TRUE),
           LAMBDA m : FileInfo(m.name, IF m.lang = "" THEN "text" ELSE m.lang, m.content,
                               FALSE, 0, 0))

\* a one-line group as the string it is; a group that ran across lines as a
\* string that stands for those lines
OneLine(name) == IF Len(name) = 1 THEN name[1].v ELSE ToString(name)

\* match.group(1).lower()
LowerKind(k) ==
    CASE k = "h3Function" -> "function" [] k = "h3Class" -> "class" [] OTHER -> "method"

\* the largest number a line-range spec names
MaxLineNo == 2
\* the labels \d+-\d+ matches
DigitRanges == {RangeLabel(a, b) : a \in 0..(MaxLineNo + 1), b \in 0..(MaxLineNo + 1)}

\* _parse_snippet_sections: the named snippets first, then the line ranges
ParseSnippetSections(section) ==
    MapSeq(FencedMatches(section, 1,
                         LAMBDA l : l.k \in {"h3Function", "h3Class", "h3Method"},
                         AnyFenceOpens, TRUE),
           LAMBDA m : Snippet(LowerKind(m.hdr.k), OneLine(m.name), "", m.content, FALSE, 0))
    \o
    MapSeq(FencedMatches(section, 1,
                         LAMBDA l : l.k = "h3lines" /\ l.v \in DigitRanges,
                         AnyFenceOpens, FALSE),
           LAMBDA m : Snippet("lines", "", m.hdr.v, m.content, FALSE, 0))

\* re.finditer(r'## 📄 代码片段: (.+?)\n(.*?)(?=^## |\Z)', content)
RECURSIVE ParseSnippetGroups(_, _)
ParseSnippetGroups(text, from) ==
    LET s == FirstIndex(text, from, LAMBDA l : l.k = "h2snip")
        e == FirstIndexOrEnd(text, s + 1, StartsH2)
    IN IF s = 0 THEN <<>>
       ELSE <<SnippetGroup(text[s].v, ParseSnippetSections(SubSeq(text, s + 1, e - 1)))>>
            \o ParseSnippetGroups(text, e)

\* _parse_skipped_files: r'### (.+?)\n(.*?)(?=### |$)'
RECURSIVE ParseSkippedFiles(_, _)
ParseSkippedFiles(section, from) ==
    LET s == FirstIndex(section, from, HoldsH3)
        e == FirstIndexOrEnd(section, s + 1, HoldsH3)
        details == SubSeq(section, s + 1, e - 1)
        reason == FirstIndex(details, 1, LAMBDA l : l.k = "reason")
        size == FirstIndex(details, 1, LAMBDA l : l.k = "size")
    IN IF s = 0 THEN <<>>
       ELSE <<Skipped(section[s].v,
                      IF reason # 0 THEN details[reason].v ELSE "unknown reason",
                      IF size # 0 THEN "num" ELSE "none",
                      IF size # 0 THEN TenthsToUnits(details[size].v) ELSE 0,
                      FALSE, 0)>>
            \o ParseSkippedFiles(section, e)

\* the statistics parse_existing_markdown derives from what it parsed
RECURSIVE CountLanguages(_, _)
CountLanguages(langs, ls) ==
    IF ls = <<>> THEN langs ELSE CountLanguages(AddLang(langs, ls[1], 1), Tail(ls))

FileLines(files) == SumSeq(MapSeq(files, LAMBDA f : LineCount(f.content)))
GroupLines(groups) ==
    SumSeq(MapSeq(groups, LAMBDA g : SumSeq(MapSeq(g.snippets, LAMBDA sn : LineCount(sn.content)))))

ParsedStats(all_files, snippet_groups) ==
    Stats(Len(all_files) + Len(snippet_groups),
          FileLines(all_files) + GroupLines(snippet_groups),
          CountLanguages(CountLanguages(NoLangs, MapSeq(all_files, LAMBDA f : f.language)),
                         MapSeq(snippet_groups, LAMBDA g : DetectLanguage(g.file_path))))

\* the files of a section and the entries of the skipped section, if present
FilesOfSection(section) == IF section.found THEN ParseFileSections(section.lines) ELSE <<>>
SkippedOfSection(section) == IF section.found THEN ParseSkippedFiles(section.lines, 1) ELSE <<>>

\* the dict built from the parsed parts
Snapshot(text, core, other, groups) ==
    Data("snapshot", ParseHeader(text), <<>>, core, other, groups, ParseStructure(text),
         ParsedStats(core \o other, groups),
         SkippedOfSection(ParseSection(text, "skipped")))

ParseExistingMarkdown(text) ==
    Snapshot(text, FilesOfSection(ParseSection(text, "core")),
             FilesOfSection(ParseSection(text, "other")), ParseSnippetGroups(text, 1))

\* ------------------------------------------------------------------------
\* merge_markdown_data
\* ------------------------------------------------------------------------
\* the paths of a file list
PathsOf(files) == {files[n].path : n \in DOMAIN files}

\* for file_info in new_data["files"]: append where the path is not among
\* the paths collected before the loop
RECURSIVE MergeFiles(_, _, _)
MergeFiles(buckets, new_files, existing_paths) ==
    IF new_files = <<>> THEN buckets
    ELSE LET file_info == new_files[1]
             next == IF file_info.path \in existing_paths THEN buckets
                     ELSE IF IsCoreFile(file_info.path)
                     THEN [buckets EXCEPT !.core = Append(@, file_info)]
                     ELSE [buckets EXCEPT !.other = Append(@, file_info)]
         IN MergeFiles(next, Tail(new_files), existing_paths)

\* snippet.get("name") or snippet.get("range")
SnippetId(snippet) == IF snippet.name # "" THEN snippet.name ELSE snippet.range

SnippetIds(snippets) == {SnippetId(snippets[n]) : n \in DOMAIN snippets}

\* for snippet in snippet_data["snippets"]: append where the id is not among
\* the ids collected before the loop
RECURSIVE AppendNewSnippets(_, _, _)
AppendNewSnippets(snippets, new_snippets, existing_snippet_names) ==
    IF new_snippets = <<>> THEN snippets
    ELSE AppendNewSnippets(
             IF SnippetId(new_snippets[1]) \in existing_snippet_names THEN snippets
             ELSE Append(snippets, new_snippets[1]),
             Tail(new_snippets), existing_snippet_names)

\* an index of the paths that finds none of them
GroupIndexNone(groups, file_path) == 0

\* {s["file_path"]: i for i, s in enumerate(...)}: the last index of a path
GroupIndex(groups, file_path) ==
    LET hits == {n \in DOMAIN groups : groups[n].file_path = file_path}
    IN IF hits = {} THEN 0 ELSE CHOOSE n \in hits : \A j \in hits : n >= j

\* for snippet_data in new_data["snippets"]; existing is the snippet list as
\* it was before the loop, from which the index of the paths is built
RECURSIVE MergeSnippets(_, _, _)
MergeSnippets(groups, new_groups, existing) ==
    IF new_groups = <<>> THEN groups
    ELSE LET snippet_data == new_groups[1]
             idx == GroupIndex(existing, snippet_data.file_path)
             next == IF idx # 0
                     THEN [groups EXCEPT ![idx].snippets =
                              AppendNewSnippets(@, snippet_data.snippets, SnippetIds(@))]
                     ELSE Append(groups, snippet_data)
         IN MergeSnippets(next, Tail(new_groups), existing)

\* _merge_tree_structures
MergeTreeStructures(existing, new) ==
    IF existing = EmptyStr THEN new
    ELSE IF new = EmptyStr THEN existing
    ELSE existing

\* for skipped in new_data["skipped_files"]
RECURSIVE AppendNewSkipped(_, _, _)
AppendNewSkipped(skipped_files, new_skipped, existing_skipped_paths) ==
    IF new_skipped = <<>> THEN skipped_files
    ELSE AppendNewSkipped(
             IF new_skipped[1].path \in existing_skipped_paths THEN skipped_files
             ELSE Append(skipped_files, new_skipped[1]),
             Tail(new_skipped), existing_skipped_paths)

\* merged["stats"]["total_lines"] = existing total_lines + new total_lines
MergedTotalLines(existing, new_data) == existing.stats.total_lines + new_data.stats.total_lines

\* the dict merge_markdown_data returns for a parsed snapshot and a new result
MergeMarkdownData(existing, new_data) ==
    LET buckets == IF HasFiles(new_data)
                   THEN MergeFiles([core |-> existing.core, other |-> existing.other],
                                   new_data.files,
                                   PathsOf(existing.core \o existing.other))
                   ELSE [core |-> existing.core, other |-> existing.other]
        snippets == IF HasSnippets(new_data)
                    THEN MergeSnippets(existing.snippets, new_data.snippets, existing.snippets)
                    ELSE existing.snippets
        structure == IF HasStructure(new_data) /\ new_data.structure # EmptyStr
                     THEN MergeTreeStructures(existing.structure, new_data.structure)
                     ELSE existing.structure
        extracted_files == {new_data.snippets[n].file_path : n \in DOMAIN new_data.snippets}
        kept == IF HasSnippets(new_data)
                THEN SelectSeq(existing.skipped_files, LAMBDA sk : sk.path \notin extracted_files)
                ELSE existing.skipped_files
        skipped_files == IF HasSkipped(new_data)
                         THEN AppendNewSkipped(kept, new_data.skipped_files,
                                               {kept[n].path : n \in DOMAIN kept})
                         ELSE kept
        languages == [l \in Languages |->
                         existing.stats.languages[l] + new_data.stats.languages[l]]
    IN Data("snapshot", existing.header, <<>>, buckets.core, buckets.other, snippets,
            structure,
            Stats(Len(buckets.core) + Len(buckets.other) + Len(snippets),
                  MergedTotalLines(existing, new_data), languages),
            skipped_files)

\* The argument `existing` after the call.  merged["files"] and
\* merged["snippets"] are shallow copies: the core and other lists and the
\* dict of every existing snippet group are the objects of `existing`, so
\* what the call appends to them shows in `existing`; the stats dict, its
\* languages dict and the skipped list are copied or rebuilt.
ExistingAfterMerge(existing, new_data) ==
    LET merged == MergeMarkdownData(existing, new_data)
    IN [existing EXCEPT !.core = merged.core,
                        !.other = merged.other,
                        !.snippets = [n \in DOMAIN existing.snippets |-> merged.snippets[n]]]

\* The argument `new_data` after the call: the call assigns to none of its
\* lists (its file and group dicts are only referenced from the result).
NewDataAfterMerge(existing, new_data) == new_data

\* ------------------------------------------------------------------------
\* main: runs of the command line tool against one output file
\* ------------------------------------------------------------------------
None == <<>>
Some(v) == <<v>>

\* Most append runs merged into an artifact before it is written afresh.
MaxAppends == 1

\* --files
FileLists ==
    { <<"a.py">>, <<"b.py">>, <<"a.py", "a.py">>, <<"m.m", "b.py">>,
      <<"big.c">>, <<"big.c", "b.py">>, <<"system_x.c">> }

\* --files with or without --no-junk-filter
BatchRuns ==
    {[files |-> files, no_junk_filter |-> FALSE] : files \in FileLists}
        \cup {[files |-> <<"system_x.c">>, no_junk_filter |-> TRUE]}

\* --target and --ranges
SnippetRequests ==
    { [target |-> "a.py", ranges |-> <<LinesSpec(1, MaxLineNo), NamedSpec("function", "f")>>],
      [target |-> "a.py", ranges |-> <<NamedSpec("function", "f"), NamedSpec("function", "f")>>],
      [target |-> "a.py", ranges |-> <<LinesSpec(1, MaxLineNo)>>],
      [target |-> "big.c", ranges |-> <<NamedSpec("function", "g")>>],
      [target |-> "big.c", ranges |-> <<NamedSpec("function", "h")>>] }

\* args.intent or ""
Intents == {""}

NoArgs ==
    [mode |-> "none", files |-> <<>>, no_junk_filter |-> FALSE, target |-> "", ranges |-> <<>>,
     append |-> FALSE, intent |-> ""]

NoData == Data("batch", <<>>, <<>>, <<>>, <<>>, <<>>, EmptyStr, Stats(0, 0, NoLangs), <<>>)

Init ==
    /\ content = <<>> /\ original = <<>> /\ i = 0 /\ output = <<>>
    /\ brace_depth = 0 /\ in_string = FALSE /\ in_char = FALSE /\ pass = 0
    /\ artifact = <<>>
    /\ has_artifact = FALSE
    /\ args = NoArgs
    /\ result = NoData
    /\ existing_data = None
    /\ existing_after = None
    /\ merged_data = NoData
    /\ raised = FALSE
    /\ written = NoData
    /\ prior = NoData
    /\ appends = 0
    /\ first_run = [args |-> NoArgs, result |-> NoData]
    /\ repeats = FALSE
    /\ remerged = None
    /\ LocIdle
    /\ BatchIdle
    /\ PyIdle

\* generate_markdown(data, args.intent or "", append_mode=args.append,
\* existing_md_path=args.output if args.append else None) and the write of
\* the returned text; an exception leaves the file as it was
Generate(a, data) ==
    \E existing \in {IF a.append /\ has_artifact
                     THEN Some(ParseExistingMarkdown(artifact))
                     ELSE None} :
    \E merged \in {IF existing # None THEN MergeMarkdownData(existing[1], data) ELSE data} :
    \E markdown \in {Serialize(merged, a.intent, a.append)} :
       /\ existing # None => appends < MaxAppends
       /\ args' = a
       /\ result' = data
       /\ existing_data' = existing
       /\ existing_after' = IF existing # None
                            THEN Some(ExistingAfterMerge(existing[1], data))
                            ELSE None
       /\ merged_data' = merged
       /\ raised' = markdown.raised
       /\ artifact' = IF markdown.raised THEN artifact ELSE markdown.text
       /\ has_artifact' = (has_artifact \/ ~markdown.raised)
       /\ written' = IF markdown.raised THEN written ELSE merged
       /\ prior' = written
       /\ appends' = IF existing = None THEN 0
                     ELSE IF markdown.raised THEN appends ELSE appends + 1
       /\ first_run' = IF existing = None THEN [args |-> a, result |-> data] ELSE first_run
       /\ repeats' = IF existing = None THEN a.mode = "batch"
                     ELSE /\ repeats /\ a.mode = "batch" /\ a.files = first_run.args.files
                          /\ a.no_junk_filter = first_run.args.no_junk_filter
       /\ remerged' = None
       /\ UNCHANGED <<skelVars, locVars, batchVars, pyVars>>

\* --mode batch --files ... [--no-junk-filter] [--append] --output FILE;
\* collector.remove_junk is False under --no-junk-filter
RunBatch(files, no_junk_filter, append, intent) ==
    Generate([mode |-> "batch", files |-> files, no_junk_filter |-> no_junk_filter,
              target |-> "", ranges |-> <<>>, append |-> append, intent |-> intent],
             BatchImport(files, ~no_junk_filter))

\* --mode snippets --target ... --ranges ... [--append] --output FILE
RunSnippets(target, ranges, append, intent) ==
    Generate([mode |-> "snippets", files |-> <<>>, no_junk_filter |-> FALSE,
              target |-> target, ranges |-> ranges,
              append |-> append, intent |-> intent],
             ExtractSnippets(target, ranges))

\* The caller merges the same result into the merged dict once more.
MergeAgain ==
    /\ existing_data # None
    /\ remerged = None
    /\ remerged' = Some(MergeMarkdownData(merged_data, result))
    /\ UNCHANGED <<skelVars, locVars, batchVars, pyVars, artifact, has_artifact, args, result, existing_data,
                   existing_after, merged_data, raised, written, prior, appends,
                   first_run, repeats>>

Next ==
    \/ \E run \in BatchRuns, append \in BOOLEAN, intent \in Intents :
           RunBatch(run.files, run.no_junk_filter, append, intent)
    \/ \E rq \in SnippetRequests, append \in BOOLEAN, intent \in Intents :
           RunSnippets(rq.target, rq.ranges, append, intent)
    \/ MergeAgain

Spec == Init /\ [][Next]_vars

\* The last run merged its result into a parsed artifact.
Merged == existing_data # None

\* ---- what the claims compare ----
AllFiles(d) == CoreOf(d) \o OtherOf(d)

NoDuplicatePaths(files) ==
    \A m, n \in DOMAIN files : files[m].path = files[n].path => m = n

NoDuplicateIds(snippets) ==
    \A m, n \in DOMAIN snippets : SnippetId(snippets[m]) = SnippetId(snippets[n]) => m = n

DuplicateFree(d) ==
    /\ NoDuplicatePaths(AllFiles(d))
    /\ \A n \in DOMAIN d.snippets : NoDuplicateIds(d.snippets[n].snippets)

DistinctPaths(files) == \A m, n \in DOMAIN files : files[m] = files[n] => m = n

SameFiles(a, b) ==
    /\ Len(a) = Len(b)
    /\ \A n \in DOMAIN a :
           /\ a[n].path = b[n].path
           /\ a[n].language = b[n].language
           /\ a[n].content = b[n].content

SameSnippets(a, b) ==
    /\ Len(a) = Len(b)
    /\ \A n \in DOMAIN a :
           /\ a[n].type = b[n].type
           /\ SnippetId(a[n]) = SnippetId(b[n])
           /\ a[n].content = b[n].content

SameGroups(a, b) ==
    /\ Len(a) = Len(b)
    /\ \A n \in DOMAIN a :
           /\ a[n].file_path = b[n].file_path
           /\ SameSnippets(a[n].snippets, b[n].snippets)

\* the size as the artifact shows it, -1 where an entry has none
ShownSize(e) == IF e.size = "num" THEN Tenths(e.size_kb) ELSE -1

\* the estimated line count as the artifact shows it, 0 where an entry has none
ShownLines(e) == IF e.has_lines THEN e.lines ELSE 0

SameSkipped(a, b) ==
    /\ Len(a) = Len(b)
    /\ \A n \in DOMAIN a :
           /\ a[n].path = b[n].path
           /\ a[n].reason = b[n].reason
           /\ ShownSize(a[n]) = ShownSize(b[n])
           /\ ShownLines(a[n]) = ShownLines(b[n])

SnippetsOf(d) == IF HasSnippets(d) THEN d.snippets ELSE <<>>
SkippedOf(d) == IF HasSkipped(d) THEN d.skipped_files ELSE <<>>

\* C1: merge is idempotent: merging the same result into the merged dict a
\* second time returns a dict equal to it in every field (both buckets,
\* snippet groups, skipped list, total_files, total_lines, languages).
C1_MergeIdempotent == remerged # None => remerged[1] = merged_data

\* C2: merge is duplicate-free: merging any result, also one that lists a
\* path or a snippet identifier twice, into a snapshot without duplicates
\* gives a dict in which no two files of core and other share a path and no
\* two snippets of one group share an identifier.
C2_MergeDuplicateFree ==
    (Merged /\ DuplicateFree(existing_data[1])) => DuplicateFree(merged_data)

\* C5: an append run on an artifact the tool wrote itself never ends in an
\* exception.
C5_AppendNeverRaises == (args.append /\ Merged) => ~raised

\* C6: after the same batch run with distinct paths has been repeated with
\* --append on the artifact of the first run, the files of the snapshot
\* (core plus other) and its total_files are those of the first run.
C6_RepeatedAppendKeepsFiles ==
    (repeats /\ appends >= 1 /\ ~raised /\ DistinctPaths(args.files)) =>
        /\ PathsOf(AllFiles(merged_data)) = PathsOf(AllFiles(first_run.result))
        /\ merged_data.stats.total_files = first_run.result.stats.total_files

\* C7: every skipped entry of the old snapshot is in the merged dict unless
\* the new result holds a group for its path with at least one snippet.
C7_SkippedNeverLost ==
    Merged =>
        \A n \in DOMAIN existing_data[1].skipped_files :
            LET entry == existing_data[1].skipped_files[n]
            IN \/ \E m \in DOMAIN merged_data.skipped_files :
                      merged_data.skipped_files[m] = entry
               \/ \E g \in DOMAIN SnippetsOf(result) :
                      /\ result.snippets[g].file_path = entry.path
                      /\ result.snippets[g].snippets # <<>>

\* C8: merge is pure: after the call the old snapshot and the new result
\* hold the values they held before it.
C8_MergeIsPure ==
    Merged =>
        /\ existing_after = existing_data
        /\ NewDataAfterMerge(existing_data[1], result) = result

\* C9: the merged total_lines is the sum of the line counts of the files and
\* snippets of the merged dict.
C9_TotalLinesRecomputed ==
    Merged =>
        merged_data.stats.total_lines =
            FileLines(AllFiles(merged_data)) + GroupLines(merged_data.snippets)

\* C10: parsing the artifact recovers the dict it was serialized from: the
\* files of each bucket (path, language, content, order), the snippet groups
\* (path, and per snippet type, identifier and content, in order) and the
\* skipped entries (path, reason, size, estimated line count).
C10_ArtifactRoundTrip ==
    Merged =>
        /\ SameFiles(CoreOf(prior), existing_data[1].core)
        /\ SameFiles(OtherOf(prior), existing_data[1].other)
        /\ SameGroups(SnippetsOf(prior), existing_data[1].snippets)
        /\ SameSkipped(SkippedOf(prior), existing_data[1].skipped_files)


\* ------------------------------------------------------------------------
\* One call of _extract_by_name and of extract_snippets on a source file
\* ------------------------------------------------------------------------
MaxFileLines == 4

LocExts == {".py", ".c", ".rs", ".js", ".go", ".txt"}

\* the lines the source files of an extension are written from
LinesOfExt(ext) ==
    CASE ext = ".py" -> {"def f():", "    return 1", "x = 2", "", "def fg():", "    def f():"}
      [] ext = ".c" -> {"int g() {", "return 0;", "}", "g();", "int h() {", "", "} g() {"}
      [] ext = ".rs" -> {"fn get() {", "fn get_all() {", "struct P {", "}"}
      [] ext = ".js" -> {"class Foo {", "class FooBar {", "}"}
      [] ext = ".go" -> {"type T struct {", "}"}
      [] OTHER -> {"x = 2", "y = 1", ""}

\* a file of newline-terminated lines
SourceTexts(ext) ==
    {[k \in DOMAIN ls |-> Txt(ls[k])] \o <<Blank>> : ls \in SeqsUpTo(LinesOfExt(ext), MaxFileLines)}

\* the extraction specs put to the files of an extension
RequestsOfExt(ext) ==
    CASE ext = ".py" -> {NamedSpec("function", "f")}
      [] ext = ".c" -> {NamedSpec("function", "g")}
      [] ext = ".rs" -> {NamedSpec("function", "get"), NamedSpec("struct", "P")}
      [] ext = ".js" -> {NamedSpec("class", "Foo")}
      [] ext = ".go" -> {NamedSpec("type", "T")}
      [] OTHER -> {LinesSpec(a, b) : a \in (0 - 1)..(MaxFileLines + 1),
                                     b \in (0 - 1)..(MaxFileLines + 1)}

LocInit ==
    /\ content = <<>> /\ original = <<>> /\ i = 0 /\ output = <<>>
    /\ brace_depth = 0 /\ in_string = FALSE /\ in_char = FALSE /\ pass = 0
    /\ artifact = <<>> /\ has_artifact = FALSE /\ args = NoArgs /\ result = NoData
    /\ existing_data = None /\ existing_after = None /\ merged_data = NoData
    /\ raised = FALSE /\ written = NoData /\ prior = NoData /\ appends = 0
    /\ first_run = [args |-> NoArgs, result |-> NoData]
    /\ repeats = FALSE /\ remerged = None
    /\ BatchIdle
    /\ PyIdle
    /\ src_ext \in LocExts
    /\ src_text \in SourceTexts(src_ext)
    /\ request \in RequestsOfExt(src_ext)
    /\ clean_mode \in {"none", "skeleton"}
    /\ stage = "ready"
    /\ located = <<>>
    /\ extracted = <<>>

\* self._extract_by_name(content, name, type, suffix): the declaration line,
\* the end line and the returned (content, lines)
Locate ==
    /\ stage = "ready"
    /\ request.type # "lines"
    /\ \E src_lines \in {SplitLines(src_text)} :
       \E first \in {DeclarationLine(src_lines, DeclPattern(src_ext, request.type),
                                     request.name)} :
       \E r \in {Locator(src_text, request.name, request.type, src_ext,
                         clean_mode = "skeleton")} :
          located' = [found |-> r.found, content |-> r.content, lines |-> r.lines,
                      start_line |-> first,
                      end_line |-> IF first < 0 THEN -1
                                   ELSE EndLine(src_lines, first, src_ext)]
    /\ stage' = "located"
    /\ UNCHANGED <<skelVars, docVars, batchVars, pyVars, src_ext, src_text, request, clean_mode, extracted>>

\* extract_snippets(file, ranges) with the spec once or twice in ranges
Extract ==
    /\ stage \in {"ready", "located"}
    /\ stage = "ready" => request.type = "lines"
    /\ \E twice \in BOOLEAN :
       \E specs \in {IF twice THEN <<request, request>> ELSE <<request>>} :
       \E r \in {ExtractFrom(src_text, src_ext, specs, clean_mode = "skeleton")} :
          extracted' = [ranges |-> specs, snippets |-> r.snippets,
                        total_lines |-> r.total_lines]
    /\ stage' = "extracted"
    /\ UNCHANGED <<skelVars, docVars, batchVars, pyVars, src_ext, src_text, request, clean_mode, located>>

LocNext == Locate \/ Extract

SpecLoc == LocInit /\ [][LocNext]_vars


\* ------------------------------------------------------------------------
\* Claims about the entity locator and extract_snippets
\* ------------------------------------------------------------------------
Located == located # <<>>
Extracted == extracted # <<>>
SrcLines == SplitLines(src_text)

\* the lines _extract_by_name returned
Span == PySlice(SrcLines, located.start_line, located.end_line)

\* the braces of some lines, in order
RECURSIVE BracesIn(_)
BracesIn(ls) == IF ls = <<>> THEN <<>> ELSE BraceChars(ls[1].v) \o BracesIn(Tail(ls))

\* every closing brace closes an earlier opening one and none stays open
RECURSIVE NestedFrom(_, _)
NestedFrom(bs, depth) ==
    IF bs = <<>> THEN depth = 0
    ELSE IF bs[1] = OB THEN NestedFrom(Tail(bs), depth + 1)
    ELSE depth > 0 /\ NestedFrom(Tail(bs), depth - 1)
WellNested(bs) == NestedFrom(bs, 0)

\* C11: in a brace-language file whose braces are balanced over the whole
\* file, the span returned for a located name holds as many opening as
\* closing braces, also when the first line matching the name is a call site
\* or a prototype.
C11_BraceSpanBalanced ==
    (/\ Located /\ located.found
     /\ src_ext \in BraceLanguages
     /\ WellNested(BracesIn(SrcLines)))
    => CountIn(BracesIn(Span), OB) = CountIn(BracesIn(Span), CB)


\* the indent of the line the search selected
BaseIndent == Indent(SrcLines[located.start_line + 1].v)
IndentLocated == Located /\ located.found /\ src_ext \notin BraceLanguages

\* C12 as stated: for an indentation-language file, the last line of the
\* returned span has an indent no greater than the declaration line's, and
\* every line strictly between the declaration line and that last line is
\* blank or indented deeper than the declaration.
C12_SpanEndsOnDedent ==
    IndentLocated =>
        /\ Indent(Last(Span).v) <= BaseIndent
        /\ \A k \in 2..(Len(Span) - 1) :
               Span[k].v = "" \/ Indent(Span[k].v) > BaseIndent

\* C12 amended: the span is the declaration line and the lines after it up
\* to, and without, the first non-blank line whose indent is no greater than
\* the declaration line's (up to the end of the file if there is none); every
\* line of the span after the declaration line is blank or indented deeper.
C12_SpanStopsBeforeDedent ==
    IndentLocated =>
        /\ clean_mode = "none" => located.content = Span
        /\ located.end_line > located.start_line
        /\ \A k \in 2..Len(Span) : Span[k].v = "" \/ Indent(Span[k].v) > BaseIndent
        /\ \/ located.end_line = Len(SrcLines)
           \/ /\ located.end_line < Len(SrcLines)
              /\ SrcLines[located.end_line + 1].v # ""
              /\ Indent(SrcLines[located.end_line + 1].v) <= BaseIndent

\* a function with a body line, followed by a line that ends its block
C12_Witness ==
    /\ IndentLocated
    /\ Len(Span) >= 2
    /\ Indent(Span[2].v) > BaseIndent
    /\ located.end_line < Len(SrcLines)


\* Lines are numbered from 0 here, as in the code.  The body lines of the
\* located declaration: the non-blank lines after it that are indented
\* deeper, with nothing but such lines and blank lines before them.
BodyLines ==
    {e \in (located.start_line + 1)..(Len(SrcLines) - 1) :
        /\ SrcLines[e + 1].v # ""
        /\ \A j \in (located.start_line + 1)..e :
               SrcLines[j + 1].v = "" \/ Indent(SrcLines[j + 1].v) > BaseIndent}
BodyEnd == CHOOSE e \in BodyLines : \A j \in BodyLines : j <= e

\* the body's last line is the last line of the file, or is followed, at
\* once or after blank lines only, by a line at indent 0
LaidOut ==
    \/ BodyEnd = Len(SrcLines) - 1
    \/ \E n \in (BodyEnd + 1)..(Len(SrcLines) - 1) :
          /\ SrcLines[n + 1].v # "" /\ Indent(SrcLines[n + 1].v) = 0
          /\ \A j \in (BodyEnd + 1)..(n - 1) : SrcLines[j + 1].v = ""

\* C13: locating a Python function whose def line is line s at indent 0 and
\* whose indented body ends at line e returns exactly the lines s..e, with
\* the line count e - s + 1, whether e is the last line of the file, is
\* directly followed by a line at indent 0, or is separated from it by blank
\* lines.
C13_PythonFunctionSpan ==
    (/\ IndentLocated /\ src_ext = ".py" /\ clean_mode = "none"
     /\ BaseIndent = 0 /\ BodyLines # {} /\ LaidOut)
    => /\ located.content = SubSeq(SrcLines, located.start_line + 1, BodyEnd + 1)
       /\ located.lines = BodyEnd - located.start_line + 1


\* ------------------------------------------------------------------------
\* Claims about hollow_out_function_bodies
\* ------------------------------------------------------------------------
\* The text is plain characters, then one brace-delimited body that runs to
\* the end of the text: the brace at index b opens it, the last character
\* closes it outside any literal, no brace before that returns the depth to
\* 0, and its content is not empty and starts with a plain character, a
\* quote or a nested block.
BodyOpensAt(text, b) ==
    /\ CharAt(text, b) = OB
    /\ \A j \in 0..(b - 1) : CharAt(text, j) = "a"
    /\ b + 2 < Len(text)
    /\ CharAt(text, b + 1) \in {"a", DQ, SQ, OB}
    /\ StructuralAt(text, CB, Len(text) - 1)
    /\ DepthBefore(text, Len(text) - 1) = 1
    /\ \A j \in (b + 1)..(Len(text) - 2) :
           StructuralAt(text, CB, j) => DepthBefore(text, j) > 1

\* C14: for a text holding a balanced brace-delimited body with non-empty
\* content, whatever that content starts with (a plain character, a string
\* or character literal, a nested block), the returned text is the text
\* before the opening brace unchanged, the opening brace, exactly one
\* placeholder and the closing brace, with nothing else of the body.
C14_BodyBecomesPlaceholder ==
    (pass = 1 /\ Returned) =>
        \A b \in Indices(content) :
            BodyOpensAt(content, b)
            => output = SubSeq(content, 1, b + 1) \o Placeholder \o <<CB>>


\* C15: on a text with more closing than opening braces the depth counter
\* never goes below 0: an excess '}' is emitted as a literal character at
\* depth 0 and the depth stays 0, so a text of closing braces and plain
\* characters alone is returned unchanged.
C15_DepthNeverNegative ==
    /\ brace_depth >= 0
    /\ (/\ pass = 1 /\ Returned
        /\ \A k \in Indices(content) : CharAt(content, k) \in {CB, "a"})
       => output = content


\* ------------------------------------------------------------------------
\* Claims about extract_snippets
\* ------------------------------------------------------------------------
\* the 'lines' fields of the emitted snippets
EmittedLines == [k \in DOMAIN extracted.snippets |-> extracted.snippets[k].lines]

\* n is the number of lines a string splits into on newlines; the empty
\* string counts as one empty line or as no line
NewlineDelimited(text, n) == n = Len(text) \/ (text = EmptyStr /\ n = 0)

\* C16: with or without skeleton mode, every emitted snippet's 'lines' field
\* is the number of lines its 'content' splits into on newlines, also when
\* the span ends with empty lines, and the result's total_lines is the sum
\* of the 'lines' fields.
C16_LinesCountContent ==
    Extracted =>
        /\ \A k \in DOMAIN extracted.snippets :
               NewlineDelimited(extracted.snippets[k].content, extracted.snippets[k].lines)
        /\ extracted.total_lines = SumSeq(EmittedLines)

LineRangeAsked == Extracted /\ request.type = "lines" /\ request.start <= request.end

\* C17: a line-range spec is 1-based, inclusive and clamped: for a file of N
\* lines and start <= end, the snippet's content is exactly the lines
\* max(start, 1)..min(end, N), also for a start of 0 or below and an end
\* beyond N.
C17_LineRangeClamps ==
    (/\ LineRangeAsked
     /\ Max(request.start, 1) <= Min(request.end, Len(SrcLines)))
    => /\ extracted.snippets # <<>>
       /\ extracted.snippets[1].content =
              SubSeq(SrcLines, Max(request.start, 1), Min(request.end, Len(SrcLines)))

\* C18: a named spec that matches no line, and a line-range spec that lies
\* wholly beyond the end of the file, add no entry to the snippet list and
\* nothing to total_lines.
C18_NothingForNoMatch ==
    (/\ Extracted
     /\ \/ request.type # "lines" /\ ~located.found
        \/ LineRangeAsked /\ request.start > Len(SrcLines))
    => extracted.snippets = <<>> /\ extracted.total_lines = 0


\* the file holds a line that declares the requested name
Declared == \E k \in DOMAIN SrcLines : Decl(SrcLines[k].v).name = request.name

\* C19: a named spec of any entity type the locator's pattern table supports
\* for the file's extension (function, class, method, struct, enum, type)
\* that names an existing declaration yields a snippet of that type through
\* extract_snippets.
C19_SupportedTypesYieldSnippets ==
    (/\ Extracted /\ request.type # "lines"
     /\ DeclPattern(src_ext, request.type) # "none"
     /\ Declared /\ located.found)
    => /\ extracted.snippets # <<>>
       /\ \A k \in DOMAIN extracted.snippets : extracted.snippets[k].type = request.type

\* C20: the declaration search selects only a declaration of the exact
\* requested name: a line declaring an entity whose name merely starts with
\* the requested name is not selected.
C20_ExactNameOnly ==
    (Located /\ located.found)
    => LET d == Decl(SrcLines[located.start_line + 1].v)
       IN d.name = "" \/ d.name = request.name


\* ------------------------------------------------------------------------
\* One call of batch_import, an iteration of its loop at a time, on a list
\* of distinct files of the project each of which may fail to be read
\* ------------------------------------------------------------------------
\* Most files in the list of a call.
MaxBatch == 2

BatchInit ==
    /\ content = <<>> /\ original = <<>> /\ i = 0 /\ output = <<>>
    /\ brace_depth = 0 /\ in_string = FALSE /\ in_char = FALSE /\ pass = 0
    /\ artifact = <<>> /\ has_artifact = FALSE /\ args = NoArgs /\ result = NoData
    /\ existing_data = None /\ existing_after = None /\ merged_data = NoData
    /\ raised = FALSE /\ written = NoData /\ prior = NoData /\ appends = 0
    /\ first_run = [args |-> NoArgs, result |-> NoData]
    /\ repeats = FALSE /\ remerged = None
    /\ LocIdle
    /\ PyIdle
    /\ batch_files \in {fs \in SeqsUpTo(Paths, MaxBatch) :
                           \A m, n \in DOMAIN fs : fs[m] = fs[n] => m = n}
    /\ read_fault \in [DOMAIN batch_files -> ReadFaults]
    /\ batch_pos = 0
    /\ batch_acc = BatchStart
    /\ batch_outcome = "running"
    /\ batch_result = None

\* for file_path in file_paths: one iteration of a collector with the
\* default remove_junk; an exception ends the call
ImportFile ==
    /\ batch_outcome = "running"
    /\ batch_pos < Len(batch_files)
    /\ \E next \in {BatchStepWith(batch_acc, batch_files[batch_pos + 1],
                                  read_fault[batch_pos + 1], TRUE)} :
          /\ batch_acc' = next
          /\ batch_outcome' = IF next.raised THEN "raised" ELSE "running"
          /\ batch_pos' = IF next.raised THEN batch_pos ELSE batch_pos + 1
    /\ UNCHANGED <<skelVars, docVars, locVars, pyVars, batch_files, read_fault, batch_result>>

\* the statements after the loop and `return result`
ImportReturn ==
    /\ batch_outcome = "running"
    /\ batch_pos = Len(batch_files)
    /\ batch_result' = Some(BatchResult(batch_acc))
    /\ batch_outcome' = "returned"
    /\ UNCHANGED <<skelVars, docVars, locVars, pyVars, batch_files, read_fault, batch_pos, batch_acc>>

BatchNext == ImportFile \/ ImportReturn

SpecBatch == BatchInit /\ [][BatchNext]_vars

\* ---- what the claims compare ----
BatchReturned == batch_outcome = "returned"

Oversized(p) == FileSizeKb(p) > KbUnits(MaxSizeKb)

\* the positions of the list whose file is under the ceiling, read and not junk
Collectable ==
    {n \in DOMAIN batch_files :
        /\ ~Oversized(batch_files[n])
        /\ read_fault[n] \in {"none", "undecodable"}
        /\ ~IsJunkFilename(batch_files[n])}

RECURSIVE PathsAt(_, _)
PathsAt(ps, keep) ==
    IF ps = <<>> THEN <<>>
    ELSE PathsAt(SubSeq(ps, 1, Len(ps) - 1), keep)
         \o (IF Len(ps) \in keep THEN <<Str(ps[Len(ps)])>> ELSE <<>>)

FilePaths(files) == [n \in DOMAIN files |-> files[n].path]
SkippedPaths(skipped) == {skipped[n].path : n \in DOMAIN skipped}

\* C21: batch size gate: when batch_import returns, every file of the list
\* is in exactly one of files and skipped_files; a file over the ceiling is
\* in skipped_files with the too-large reason and was neither opened nor
\* collected; the other files that are read and are not junk make up files,
\* in input order; total_files is the length of files and total_lines the
\* sum of their line counts.
C21_BatchSizeGate ==
    BatchReturned =>
        LET r == batch_result[1]
        IN /\ Len(r.files) + Len(r.skipped_files) = Len(batch_files)
           /\ \A n \in DOMAIN batch_files :
                  (Str(batch_files[n]) \in SeqRange(FilePaths(r.files)))
                      # (batch_files[n] \in SkippedPaths(r.skipped_files))
           /\ \A n \in DOMAIN batch_files :
                  Oversized(batch_files[n]) =>
                      /\ \E m \in DOMAIN r.skipped_files :
                             /\ r.skipped_files[m].path = batch_files[n]
                             /\ r.skipped_files[m].reason =
                                    TooLargeReason(FileSizeKb(batch_files[n]))
                      /\ Str(batch_files[n]) \notin SeqRange(FilePaths(r.files))
                      /\ batch_files[n] \notin SeqRange(batch_acc.opened)
           /\ FilePaths(r.files) = PathsAt(batch_files, Collectable)
           /\ r.stats.total_files = Len(r.files)
           /\ r.stats.total_lines = FileLines(r.files)

\* C22: a failure to read one file of the list never aborts the batch: no
\* call ends in an exception, and a call that returns has recorded or
\* skipped every file of the list.
C22_ReadFailureNeverAborts ==
    /\ batch_outcome # "raised"
    /\ BatchReturned =>
           Len(batch_result[1].files) + Len(batch_result[1].skipped_files) = Len(batch_files)

\* C23: merge keeps the old header and the old directory-structure string
\* verbatim: the header and the structure of the merged dict are those of
\* the old snapshot, also when the old structure is the empty string and the
\* new result has one.
C23_HeaderAndStructureKept ==
    Merged =>
        /\ merged_data.header = existing_data[1].header
        /\ merged_data.structure = existing_data[1].structure

\* ---- merge as an extension of the old snapshot ----
\* what a sequence holds after its first n elements
After(s, n) == SubSeq(s, n + 1, Len(s))

StartsAs(s, old) == Len(s) >= Len(old) /\ SubSeq(s, 1, Len(old)) = old

\* the priority predicate: the paths the configuration names as core files
Prioritized(path) == path \in {Str(p) : p \in CoreFiles}

GroupPaths(groups) == {groups[n].file_path : n \in DOMAIN groups}

FilesOf(d) == IF HasFiles(d) THEN d.files ELSE <<>>

\* the snippets of the new groups of one path whose identity the old group lacks
NewSnippetsFor(new_groups, old_group) ==
    Flatten(MapSeq(SelectSeq(new_groups, LAMBDA g : g.file_path = old_group.file_path),
                   LAMBDA g : SelectSeq(g.snippets,
                                        LAMBDA sn : SnippetId(sn) \notin
                                                        SnippetIds(old_group.snippets))))

\* m extends old by what new brings: the old files, groups and snippets
\* lead their lists unchanged, and the rest of each list is the new entries
\* that were absent, in the order of the new result
ExtendsOldWith(old, new, m) ==
    /\ StartsAs(m.core, old.core)
    /\ StartsAs(m.other, old.other)
    /\ After(m.core, Len(old.core)) =
           SelectSeq(FilesOf(new), LAMBDA f : /\ f.path \notin PathsOf(old.core \o old.other)
                                              /\ Prioritized(f.path))
    /\ After(m.other, Len(old.other)) =
           SelectSeq(FilesOf(new), LAMBDA f : /\ f.path \notin PathsOf(old.core \o old.other)
                                              /\ ~Prioritized(f.path))
    /\ Len(m.snippets) >= Len(old.snippets)
    /\ \A n \in DOMAIN old.snippets :
           /\ m.snippets[n].file_path = old.snippets[n].file_path
           /\ StartsAs(m.snippets[n].snippets, old.snippets[n].snippets)
           /\ After(m.snippets[n].snippets, Len(old.snippets[n].snippets)) =
                  NewSnippetsFor(SnippetsOf(new), old.snippets[n])
    /\ After(m.snippets, Len(old.snippets)) =
           SelectSeq(SnippetsOf(new), LAMBDA g : g.file_path \notin GroupPaths(old.snippets))

\* C24: merge is monotonic and old-wins, merge after merge: every file of the
\* old snapshot stays in its bucket at its position with its content, so
\* does every old snippet group and every old snippet; a new file whose path
\* is absent is appended to the bucket the priority predicate chooses, a new
\* snippet whose identity its group lacks is appended to that group, and a
\* new file path makes a new group at the end.
C24_MergeExtendsOld ==
    /\ Merged => ExtendsOldWith(existing_data[1], result, merged_data)
    /\ remerged # None => ExtendsOldWith(merged_data, result, remerged[1])

\* a merge appended a snippet to a group of the old snapshot that held
\* snippets already
C24_Witness ==
    /\ Merged
    /\ \E n \in DOMAIN existing_data[1].snippets :
           /\ existing_data[1].snippets[n].snippets # <<>>
           /\ Len(merged_data.snippets[n].snippets) >
                  Len(existing_data[1].snippets[n].snippets)

\* ---- the brace that closes the first opening brace ----
\* the braces of the lines after the first `from` lines, each with its line
BracePositions(lines, from) ==
    Flatten([k \in DOMAIN lines |->
                IF k <= from THEN <<>>
                ELSE [n \in DOMAIN BraceChars(lines[k].v) |->
                         [c |-> BraceChars(lines[k].v)[n], line |-> k]]])

\* the line of the brace that brings the depth of open braces back to 0,
\* 0 where none does
RECURSIVE ClosingLine(_, _)
ClosingLine(bs, depth) ==
    IF bs = <<>> THEN 0
    ELSE IF bs[1].c = OB THEN ClosingLine(Tail(bs), depth + 1)
    ELSE IF depth = 1 THEN bs[1].line
    ELSE ClosingLine(Tail(bs), depth - 1)

\* the line that closes the first opening brace at or after the declaration
\* line; the last line where no brace opens or the one that opens is not
\* closed
RECURSIVE MatchingEnd(_, _)
MatchingEnd(bs, last) ==
    IF bs = <<>> THEN last
    ELSE IF bs[1].c = CB THEN MatchingEnd(Tail(bs), last)
    ELSE IF ClosingLine(Tail(bs), 1) = 0 THEN last
    ELSE ClosingLine(Tail(bs), 1)

BraceLocated == Located /\ located.found /\ src_ext \in BraceLanguages

\* C25: brace-matching end detection ends the span at the line holding the
\* brace that closes the first opening brace found at or after the
\* declaration line, also when a closing brace comes before that opening
\* brace; without an opening brace the span runs to the end of the file.
C25_SpanEndsAtMatchingClose ==
    BraceLocated =>
        located.end_line =
            MatchingEnd(BracePositions(SrcLines, located.start_line), Len(SrcLines))


\* ------------------------------------------------------------------------
\* One call of _extract_python_skeleton, a line of the input at a time
\* ------------------------------------------------------------------------
\* Most lines of the Python text.
MaxPyLines == 4

\* the lines the Python texts are written from
PyLines ==
    {"@dec", "    @dec", "class C:", "def f():", "    def f():", "async def h():",
     "    return 1", "x = 2", ""}

PyInit ==
    /\ content = <<>> /\ original = <<>> /\ i = 0 /\ output = <<>>
    /\ brace_depth = 0 /\ in_string = FALSE /\ in_char = FALSE /\ pass = 0
    /\ artifact = <<>> /\ has_artifact = FALSE /\ args = NoArgs /\ result = NoData
    /\ existing_data = None /\ existing_after = None /\ merged_data = NoData
    /\ raised = FALSE /\ written = NoData /\ prior = NoData /\ appends = 0
    /\ first_run = [args |-> NoArgs, result |-> NoData]
    /\ repeats = FALSE /\ remerged = None
    /\ LocIdle
    /\ BatchIdle
    /\ py_lines \in SeqsUpTo(PyLines, MaxPyLines)
    /\ py_pos = 0
    /\ py_locals = PythonSkeletonStart
    /\ py_skeleton = None

\* for line in lines: one iteration
ScanLine ==
    /\ py_skeleton = None
    /\ py_pos < Len(py_lines)
    /\ py_locals' = PythonSkeletonStep(py_locals, py_lines[py_pos + 1])
    /\ py_pos' = py_pos + 1
    /\ UNCHANGED <<skelVars, docVars, locVars, batchVars, py_lines, py_skeleton>>

\* return '\n'.join(result)
ReturnSkeleton ==
    /\ py_skeleton = None
    /\ py_pos = Len(py_lines)
    /\ py_skeleton' = Some(JoinLines(py_locals.result))
    /\ UNCHANGED <<skelVars, docVars, locVars, batchVars, py_lines, py_pos, py_locals>>

PyNext == ScanLine \/ ReturnSkeleton

SpecPy == PyInit /\ [][PyNext]_vars

\* ---- the structure of the input, told from the lines alone ----
\* Line k lies in the body of a function: a function declaration before it
\* that is itself in no function body is followed, up to and including k,
\* only by blank lines and lines indented deeper than the declaration.
RECURSIVE InFunctionBody(_)
InFunctionBody(k) ==
    \E j \in 1..(k - 1) :
        /\ Decl(py_lines[j]).kw \in {"def", "async def"}
        /\ ~InFunctionBody(j)
        /\ \A m \in (j + 1)..k :
               py_lines[m] = "" \/ Indent(py_lines[m]) > Indent(py_lines[j])

IsDeclarationLine(k) == Decl(py_lines[k]).kw \in {"def", "async def", "class"}
IsDecoratorLine(k) == py_lines[k] \in {"@dec", "    @dec"}

\* the declarations that are in no function body, among the first n lines
KeptDeclarations(n) == {k \in 1..n : IsDeclarationLine(k) /\ ~InFunctionBody(k)}

\* the lines at the positions of a set, in order
RECURSIVE LinesAt(_, _)
LinesAt(n, keep) ==
    IF n = 0 THEN <<>>
    ELSE LinesAt(n - 1, keep) \o (IF n \in keep THEN <<Txt(py_lines[n])>> ELSE <<>>)

SkeletonReturned == py_skeleton # None

\* C26: Python skeleton extraction keeps structure recursively: the lines of
\* the output that are not decorators are, in order, every class declaration
\* and every def / async def declaration of the input that is not nested in
\* a function body, a body being the blank lines and the lines indented
\* deeper that follow a function declaration; class bodies are not skipped,
\* so the method declarations of a class are kept.
C26_SkeletonKeepsDeclarations ==
    SkeletonReturned =>
        SelectSeq(py_locals.result, LAMBDA l : ~StartsDecorator(l.v)) =
            LinesAt(Len(py_lines), KeptDeclarations(Len(py_lines)))

\* a text whose class holds a method that is kept while a def nested in its
\* body is dropped
C26_Witness ==
    /\ SkeletonReturned
    /\ \E c, d, n \in DOMAIN py_lines :
           /\ c < d /\ d < n
           /\ Decl(py_lines[c]).kw = "class"
           /\ Decl(py_lines[d]).kw = "def" /\ Indent(py_lines[d]) > Indent(py_lines[c])
           /\ d \in KeptDeclarations(Len(py_lines))
           /\ IsDeclarationLine(n) /\ InFunctionBody(n)

\* the decorator lines that stand directly before line d, none of them in a
\* function body
RECURSIVE DecoratorsBefore(_)
DecoratorsBefore(d) ==
    IF d > 1 /\ IsDecoratorLine(d - 1) /\ ~InFunctionBody(d - 1)
    THEN DecoratorsBefore(d - 1) \cup {d - 1}
    ELSE {}

\* the decorators that stand directly before a declaration that is kept
AttachedDecorators(n) == UNION {DecoratorsBefore(d) : d \in KeptDeclarations(n)}

\* C27: a decorator line is in the output if and only if it is outside every
\* skipped function body and only decorator lines stand between it and the
\* next kept declaration; any other line in between, a blank one too,
\* empties the pending buffer, and the decorators come out in their order
\* directly before their declaration.  In every state of the scan the result
\* is the kept declarations so far, each behind its decorators, and the
\* buffer holds the decorators directly before the next line.
C27_DecoratorsBindToNextDeclaration ==
    py_locals # <<>> =>
        /\ py_locals.result =
               LinesAt(py_pos, KeptDeclarations(py_pos) \cup AttachedDecorators(py_pos))
        /\ py_locals.pending_decorators = LinesAt(py_pos, DecoratorsBefore(py_pos + 1))

\* a decorator was dropped because of a blank line behind it, and another
\* one came out before its declaration
C27_Witness ==
    /\ SkeletonReturned
    /\ \E k \in DOMAIN py_lines :
           /\ IsDecoratorLine(k) /\ ~InFunctionBody(k)
           /\ k < Len(py_lines) /\ py_lines[k + 1] = ""
           /\ k \notin AttachedDecorators(Len(py_lines))
    /\ AttachedDecorators(Len(py_lines)) # {}

\* C28: literal-aware scanning: in every step of the scanner a double quote
\* toggles in_string, and a single quote in_char, if and only if it is at
\* index 0 or the character before it is not a backslash; neither flag
\* depends on the other; and a '{' or '}' read while either flag is set is
\* copied to the output and leaves the brace depth as it is.
C28_LiteralAwareScanning ==
    [][i' = i + 1 =>
          LET char == content[i + 1]
              unescaped == IF i = 0 THEN TRUE ELSE content[i] # BS
          IN /\ (in_string' # in_string) <=> (char = DQ /\ unescaped)
             /\ (in_char' # in_char) <=> (char = SQ /\ unescaped)
             /\ (char \in {OB, CB} /\ (in_string \/ in_char)) =>
                    /\ output' = Append(output, char)
                    /\ brace_depth' = brace_depth]_vars

\* both flags are set and the brace just read was copied, outside any body
C28_Witness ==
    /\ pass = 1 /\ i >= 3
    /\ in_string /\ in_char
    /\ content[i] \in {OB, CB}
    /\ Last(output) = content[i]
    /\ brace_depth = 0

\* ---- stats of a snapshot ----
\* the sum of the per-language counts
RECURSIVE SumOver(_, _)
SumOver(counts, keys) ==
    IF keys = {} THEN 0
    ELSE LET key == CHOOSE x \in keys : TRUE
         IN counts[key] + SumOver(counts, keys \ {key})

StatsConsistent(d) ==
    /\ d.stats.total_files = Len(d.core) + Len(d.other) + Len(d.snippets)
    /\ SumOver(d.stats.languages, DOMAIN d.stats.languages) = d.stats.total_files

\* C29: stats are consistent in every snapshot that parse_existing_markdown
\* or merge_markdown_data returns: total_files is the number of core files
\* plus other files plus snippet groups, and the per-language counts add up
\* to total_files, also after a merge that suppressed new files or snippet
\* groups as duplicates.
C29_StatsConsistent ==
    Merged => StatsConsistent(existing_data[1]) /\ StatsConsistent(merged_data)

\* the paths a snapshot holds as a collected file or as a snippet group
CollectedPaths(d) ==
    {p[1].v : p \in PathsOf(d.core \o d.other)} \cup GroupPaths(d.snippets)

\* C30: after any sequence of merges no path is both in skipped_files and
\* present as a collected file (core or other) or as a snippet group: once
\* a later batch run collects a path an earlier run skipped, or a later
\* snippet run extracts from it, the inherited skipped entry is gone.
C30_SkippedOrCollected ==
    Merged => SkippedPaths(merged_data.skipped_files) \cap CollectedPaths(merged_data) = {}

====
